---- MODULE Spec2Model ----
(***************************************************************************)
(* parkrun-parser: the ingest loop (main.go parseAndStoreResults), the     *)
(* SQLite store (db.go), the extractor of results pages (parser.go) and the *)
(* reports (reports.go).                                                   *)
(*                                                                         *)
(* The store is three tables of rows.  Row ids come from AUTOINCREMENT     *)
(* counters (sqlite_sequence): a new row gets the counter plus one, and a  *)
(* deleted id is never reused.  The database is opened with the driver's   *)
(* defaults (sql.Open("sqlite3", "./parkrun.db")), so FOREIGN KEY clauses  *)
(* are declared but not enforced.                                          *)
(***************************************************************************)
EXTENDS Integers, Sequences, FiniteSets, TLC

\* ---------------------------------------------------------------- bounds
MaxRuns == 2            \* program runs (parse / parse --clear) in one behaviour
MaxCalls == 3           \* store calls in one behaviour of SpecStore
MaxEventNumber == 2     \* event numbers used by direct store calls
StreakCap == 2          \* rate-limited responses in a row that are told apart

\* ------------------------------------------------------- program constants
WaitBetweenRequests == 5
RateLimitBackoff == 180
MaxConsecutiveErrors == 3
DefaultCountry == "AUS"

\* ------------------------------------------------------------ environment
Slugs == {"bushy", "westerfolds"}

\* Number of events the remote series has published for a slug; a request
\* for a higher event number is answered 425.
SrcEventCount(slug) == IF slug = "bushy" THEN 2 ELSE 1

\* parser.go Result, as returned by scrapeEvent (EventID is filled by the store).
Row(pos, name, secs, cat) ==
    [Position |-> pos, Name |-> name, TimeSeconds |-> secs,
     AgeGrade |-> "50%", AgeCategory |-> cat, Note |-> "", TotalRuns |-> pos]

SrcResults(slug, n) ==
    IF slug = "bushy" /\ n = 1
        THEN << Row(1, "Runner A", 1200, "VM35-39"), Row(2, "Unknown", 0, "") >>
    ELSE IF slug = "bushy" /\ n = 2
        THEN << Row(1, "Runner B", 1500, "SW30-34") >>
    ELSE << >>

SrcDate(slug, n) == IF slug = "bushy" THEN n ELSE 0

\* parser.go ParseResults / scrapeEvent on a 2xx page: the Event carries the
\* number and url, LocationID is left zero for the caller.
PageEvent(slug, n) ==
    [EventNumber |-> n, LocationID |-> 0, Date |-> SrcDate(slug, n), URL |-> [slug |-> slug, number |-> n]]

NoEvent ==
    [EventNumber |-> 0, LocationID |-> 0, Date |-> 0, URL |-> [slug |-> "", number |-> 0]]

Response(kind, code, ev, rs) == [kind |-> kind, code |-> code, event |-> ev, results |-> rs]

NoResponse == Response("none", 0, NoEvent, << >>)

\* What one GET of event n can come back as.  "http" is a status >= 400
\* (*HTTPError), "network" a failed client.Do, "html" a failed goquery parse.
ParseResults(slug, n) ==
    { Response("http", 405, NoEvent, << >>),
      Response("http", 500, NoEvent, << >>),
      Response("network", 0, NoEvent, << >>),
      Response("html", 200, NoEvent, << >>) }
    \cup (IF n > SrcEventCount(slug)
            THEN { Response("http", 425, NoEvent, << >>) }
            ELSE { Response("ok", 200, PageEvent(slug, n), SrcResults(slug, n)) })

\* Every response of every page the loop can ask for.
Responses ==
    UNION { ParseResults(slug, n) : slug \in Slugs, n \in 1..(SrcEventCount("bushy") + 1) }

\* ------------------------------------------------------------------ store
EmptyDB ==
    [locations |-> {}, events |-> {}, results |-> {},
     seqLoc |-> 0, seqEvt |-> 0, seqRes |-> 0]

Max(S) == CHOOSE x \in S : \A y \in S : y <= x

\* main.go:124-139 with INSERT OR REPLACE in place of INSERT OR IGNORE.
UpsertLocationReplace(d, slug, insErr, selErr) ==
    LET present == { l \in d.locations : l.slug = slug } IN
    IF ~insErr
        THEN [db |-> [d EXCEPT !.locations = (@ \ present) \cup
                                   { [id |-> d.seqLoc + 1, slug |-> slug,
                                      name |-> "NULL", country |-> DefaultCountry] },
                               !.seqLoc = @ + 1],
              id |-> d.seqLoc + 1, fatal |-> FALSE]
    ELSE IF selErr \/ present = {}
        THEN [db |-> d, id |-> 0, fatal |-> TRUE]
    ELSE [db |-> d, id |-> (CHOOSE l \in present : TRUE).id, fatal |-> FALSE]

\* main.go:124-139, INSERT OR IGNORE ... RETURNING id, then SELECT id.
\* insErr / selErr: the statement fails for a reason of the database itself.
\* Returns the new store, the id and whether the run dies (log.Fatal).
UpsertLocation(d, slug, insErr, selErr) ==
    LET present == { l \in d.locations : l.slug = slug } IN
    IF ~insErr /\ present = {}
        THEN [db |-> [d EXCEPT !.locations = @ \cup
                                   { [id |-> d.seqLoc + 1, slug |-> slug,
                                      name |-> "NULL", country |-> DefaultCountry] },
                               !.seqLoc = @ + 1],
              id |-> d.seqLoc + 1, fatal |-> FALSE]
    ELSE IF selErr \/ present = {}
        THEN [db |-> d, id |-> 0, fatal |-> TRUE]
    ELSE [db |-> d, id |-> (CHOOSE l \in present : TRUE).id, fatal |-> FALSE]

\* db.go StoreEvent with the UNIQUE constraint ignored.
StoreEventNoConflict(d, event, fail) ==
    IF fail THEN [db |-> d, id |-> 0, err |-> TRUE]
    ELSE [db |-> [d EXCEPT !.events = @ \cup
                      { [id |-> d.seqEvt + 1, event_number |-> event.EventNumber,
                         location_id |-> event.LocationID, date |-> event.Date,
                         url |-> event.URL] },
                           !.seqEvt = @ + 1],
          id |-> d.seqEvt + 1, err |-> FALSE]

\* db.go:52-64 StoreEvent.  INSERT OR REPLACE under UNIQUE(event_number,
\* location_id): the conflicting row is deleted and a new row is inserted with
\* a fresh AUTOINCREMENT id, which LastInsertId returns.
StoreEvent(d, event, fail) ==
    IF fail THEN [db |-> d, id |-> 0, err |-> TRUE]
    ELSE LET conflict == { e \in d.events : /\ e.event_number = event.EventNumber
                                            /\ e.location_id = event.LocationID }
         IN  [db |-> [d EXCEPT !.events = (@ \ conflict) \cup
                          { [id |-> d.seqEvt + 1, event_number |-> event.EventNumber,
                             location_id |-> event.LocationID, date |-> event.Date,
                             url |-> event.URL] },
                               !.seqEvt = @ + 1],
              id |-> d.seqEvt + 1, err |-> FALSE]

\* db.go:76-80 with the value bound as it is, 0 included.
TimeSecondsColumnRaw(secs) == <<secs>>

\* db.go:76-80, the *int bound to time_seconds: << >> is SQL NULL (the nil
\* pointer), <<n>> the integer n.
TimeSecondsColumn(secs) == IF secs > 0 THEN <<secs>> ELSE << >>

\* db.go:76-98, one iteration of the loop in StoreResults.
StoreOneResult(d, result, eventID, fail) ==
    IF fail THEN d
    ELSE LET conflict == { r \in d.results : /\ r.position = result.Position
                                             /\ r.event_id = eventID }
         IN  [d EXCEPT !.results = (@ \ conflict) \cup
                  { [id |-> d.seqRes + 1, position |-> result.Position,
                     name |-> result.Name,
                     time_seconds |-> TimeSecondsColumn(result.TimeSeconds),
                     age_grade |-> result.AgeGrade, age_category |-> result.AgeCategory,
                     note |-> result.Note, total_runs |-> result.TotalRuns,
                     event_id |-> eventID] },
                       !.seqRes = @ + 1]

\* The loop of StoreResults with `break` in place of `continue` at db.go:95.
RECURSIVE StoreResultsFromBreak(_, _, _, _, _)
StoreResultsFromBreak(acc, rs, eventID, failed, i) ==
    IF i > Len(rs) THEN acc
    ELSE IF i \in failed THEN [acc EXCEPT !.errorCount = @ + 1]
    ELSE StoreResultsFromBreak(
             [acc EXCEPT !.db = StoreOneResult(@, rs[i], eventID, FALSE),
                         !.successCount = @ + 1],
             rs, eventID, failed, i + 1)

\* db.go:73-98, the loop of StoreResults from the i-th result on.  failed: the
\* indexes of the rows whose Exec returns an error; the loop logs them, counts
\* them and goes on.
RECURSIVE StoreResultsFrom(_, _, _, _, _)
StoreResultsFrom(acc, rs, eventID, failed, i) ==
    IF i > Len(rs) THEN acc
    ELSE StoreResultsFrom(
             [acc EXCEPT !.db = StoreOneResult(@, rs[i], eventID, i \in failed),
                         !.successCount = IF i \in failed THEN @ ELSE @ + 1,
                         !.errorCount = IF i \in failed THEN @ + 1 ELSE @],
             rs, eventID, failed, i + 1)

\* db.go:67-101 StoreResults, with the two counts it logs at db.go:100.
StoreResultsRun(d, rs, eventID, failed) ==
    StoreResultsFrom([db |-> d, successCount |-> 0, errorCount |-> 0], rs, eventID, failed, 1)

\* db.go:67-101 StoreResults, the store it leaves.
StoreResults(d, rs, eventID, failed) == StoreResultsRun(d, rs, eventID, failed).db

\* db.go GetNextEventNumber with COALESCE(MAX(event_number), 1), as in the
\* first version of the program.
GetNextEventNumberCoalesceOne(d, locID, queryErr) ==
    IF queryErr THEN 1
    ELSE LET nums == { e.event_number : e \in { x \in d.events : x.location_id = locID } }
         IN  (IF nums = {} THEN 1 ELSE Max(nums)) + 1

\* db.go:104-115 GetNextEventNumber.
GetNextEventNumber(d, locID, queryErr) ==
    IF queryErr THEN 1
    ELSE LET nums == { e.event_number : e \in { x \in d.events : x.location_id = locID } }
         IN  (IF nums = {} THEN 0 ELSE Max(nums)) + 1

ClearFailures == {"none", "find", "begin", "results", "events", "location", "commit"}

\* db.go:136-159 with the events deleted before the results.
ClearOrderEventsFirst == <<"events", "results", "location">>

\* db.go:136-159, the three DELETE statements in the order they are executed.
ClearOrder == <<"results", "events", "location">>

\* db.go:137-141, 148 and 155: one DELETE on the transaction's view of the store.
ClearStatement(tx, locID, step) ==
    IF step = "results"
        THEN [tx EXCEPT !.results =
                  { r \in @ : ~(\E e \in tx.events : e.location_id = locID /\ e.id = r.event_id) }]
    ELSE IF step = "events"
        THEN [tx EXCEPT !.events = { e \in @ : e.location_id # locID }]
    ELSE [tx EXCEPT !.locations = { l \in @ : l.id # locID }]

\* db.go:136-159: the statements from the i-th on, stopping at the one that fails.
RECURSIVE ExecClear(_, _, _, _)
ExecClear(tx, locID, failAt, i) ==
    IF i > Len(ClearOrder) THEN [tx |-> tx, err |-> FALSE]
    ELSE IF ClearOrder[i] = failAt THEN [tx |-> tx, err |-> TRUE]
    ELSE ExecClear(ClearStatement(tx, locID, ClearOrder[i]), locID, failAt, i + 1)

\* ClearLocationData with the statements run on db itself, outside a transaction.
ClearLocationDataNoTx(d, slug, failAt) ==
    LET present == { l \in d.locations : l.slug = slug } IN
    IF failAt = "find" THEN [db |-> d, err |-> TRUE]
    ELSE IF present = {} THEN [db |-> d, err |-> FALSE]
    ELSE IF failAt = "begin" THEN [db |-> d, err |-> TRUE]
    ELSE LET run == ExecClear(d, (CHOOSE l \in present : TRUE).id, failAt, 1)
         IN  [db |-> run.tx, err |-> run.err \/ failAt = "commit"]

\* db.go:118-168 ClearLocationData.  failAt names the statement that fails.
\* A failed DELETE is followed by tx.Rollback(); a failed COMMIT is rolled
\* back by the driver; either way the store is as it was at Begin.
ClearLocationData(d, slug, failAt) ==
    LET present == { l \in d.locations : l.slug = slug } IN
    IF failAt = "find" THEN [db |-> d, err |-> TRUE]
    ELSE IF present = {} THEN [db |-> d, err |-> FALSE]
    ELSE IF failAt = "begin" THEN [db |-> d, err |-> TRUE]
    ELSE LET run == ExecClear(d, (CHOOSE l \in present : TRUE).id, failAt, 1)
         IN  IF run.err \/ failAt = "commit"
                 THEN [db |-> d, err |-> TRUE]
                 ELSE [db |-> run.tx, err |-> FALSE]

\* ------------------------------------------------------------------- text
\* A Go string is a sequence of one-character strings: "23:45" is
\* <<"2", "3", ":", "4", "5">> and "" is << >>.
Digits == <<"0", "1", "2", "3", "4", "5", "6", "7", "8", "9">>

IsDigit(c) == \E n \in 1..10 : Digits[n] = c

DigitValue(c) == (CHOOSE n \in 1..10 : Digits[n] = c) - 1

\* The value of a run of decimal digits.
RECURSIVE DecimalValue(_)
DecimalValue(s) ==
    IF s = << >> THEN 0
    ELSE DecimalValue(SubSeq(s, 1, Len(s) - 1)) * 10 + DigitValue(s[Len(s)])

\* strconv.Atoi: an optional sign, then one or more decimal digits; anything
\* else is a syntax error and the value is 0.  (Texts here are far shorter
\* than the 19 digits at which Atoi reports a range error.)
Atoi(s) ==
    LET signed == Len(s) > 0 /\ s[1] \in {"+", "-"}
        body == IF signed THEN Tail(s) ELSE s
    IN  IF body = << >> \/ \E i \in 1..Len(body) : ~IsDigit(body[i])
            THEN [value |-> 0, err |-> TRUE]
        ELSE [value |-> IF signed /\ s[1] = "-" THEN 0 - DecimalValue(body)
                                                 ELSE DecimalValue(body),
              err |-> FALSE]

\* strings.Split(s, sep) for a one-character sep, from index i on; cur is the
\* part being collected.
RECURSIVE SplitFrom(_, _, _, _)
SplitFrom(s, sep, i, cur) ==
    IF i > Len(s) THEN <<cur>>
    ELSE IF s[i] = sep THEN <<cur>> \o SplitFrom(s, sep, i + 1, << >>)
    ELSE SplitFrom(s, sep, i + 1, Append(cur, s[i]))

Split(s, sep) == SplitFrom(s, sep, 1, << >>)

WhiteSpace == {" ", "\t", "\n", "\r"}

RECURSIVE TrimLeft(_)
TrimLeft(s) == IF s # << >> /\ s[1] \in WhiteSpace THEN TrimLeft(Tail(s)) ELSE s

RECURSIVE TrimRight(_)
TrimRight(s) ==
    IF s # << >> /\ s[Len(s)] \in WhiteSpace THEN TrimRight(SubSeq(s, 1, Len(s) - 1)) ELSE s

\* strings.TrimSpace
TrimSpace(s) == TrimRight(TrimLeft(s))

\* strings.Contains
Contains(s, substr) ==
    \E i \in 0..(Len(s) - Len(substr)) : SubSeq(s, i + 1, i + Len(substr)) = substr

Unknown == <<"U", "n", "k", "n", "o", "w", "n">>

\* parser.go timeToSeconds without the early return for "" and "Unknown".
timeToSecondsNoSentinel(timeStr) ==
    LET parts == Split(timeStr, ":") IN
    IF Len(parts) = 2
        THEN IF Atoi(parts[1]).err \/ Atoi(parts[2]).err
                THEN [value |-> 0, err |-> TRUE]
             ELSE [value |-> Atoi(parts[1]).value * 60 + Atoi(parts[2]).value, err |-> FALSE]
    ELSE IF Len(parts) = 3
        THEN IF Atoi(parts[1]).err \/ Atoi(parts[2]).err \/ Atoi(parts[3]).err
                THEN [value |-> 0, err |-> TRUE]
             ELSE [value |-> Atoi(parts[1]).value * 3600 + Atoi(parts[2]).value * 60
                                 + Atoi(parts[3]).value,
                   err |-> FALSE]
    ELSE [value |-> 0, err |-> TRUE]

\* parser.go:185-219 timeToSeconds
timeToSeconds(timeStr) ==
    IF timeStr = << >> \/ timeStr = Unknown THEN [value |-> 0, err |-> FALSE]
    ELSE LET parts == Split(timeStr, ":") IN
         IF Len(parts) = 2
             THEN IF Atoi(parts[1]).err \/ Atoi(parts[2]).err
                     THEN [value |-> 0, err |-> TRUE]
                  ELSE [value |-> Atoi(parts[1]).value * 60 + Atoi(parts[2]).value,
                        err |-> FALSE]
         ELSE IF Len(parts) = 3
             THEN IF Atoi(parts[1]).err \/ Atoi(parts[2]).err \/ Atoi(parts[3]).err
                     THEN [value |-> 0, err |-> TRUE]
                  ELSE [value |-> Atoi(parts[1]).value * 3600 + Atoi(parts[2]).value * 60
                                      + Atoi(parts[3]).value,
                        err |-> FALSE]
         ELSE [value |-> 0, err |-> TRUE]

\* ------------------------------------------------------------------ dates
\* A calendar date; time.Time{} is 1 January of year 1.
Date(y, m, d) == [year |-> y, month |-> m, day |-> d]

ZeroDate == Date(1, 1, 1)

\* parser.go:164-168, the layouts of time.Parse as their chunks: "02" and
\* "01" are two digits, "2" and "1" one or two, "2006" four, "06" two.
Formats ==
    << <<"02", "/", "01", "/", "2006">>,
       <<"2", "/", "1", "/", "06">>,
       <<"2", "/", "1", "/", "2006">> >>

IsDigitAt(s, i) == i <= Len(s) /\ IsDigit(s[i])

\* time.getnum: a one- or two-digit number, two digits when fixed.
getnum(s, fixed) ==
    IF ~IsDigitAt(s, 1) THEN [n |-> 0, rest |-> s, err |-> TRUE]
    ELSE IF ~IsDigitAt(s, 2)
        THEN IF fixed THEN [n |-> 0, rest |-> s, err |-> TRUE]
             ELSE [n |-> DigitValue(s[1]), rest |-> Tail(s), err |-> FALSE]
    ELSE [n |-> DigitValue(s[1]) * 10 + DigitValue(s[2]),
          rest |-> SubSeq(s, 3, Len(s)), err |-> FALSE]

\* time.atoi, used for the year: an optional sign and digits only.
timeAtoi(s) ==
    LET signed == Len(s) > 0 /\ s[1] \in {"+", "-"}
        body == IF signed THEN Tail(s) ELSE s
    IN  IF \E i \in 1..Len(body) : ~IsDigit(body[i]) THEN [value |-> 0, err |-> TRUE]
        ELSE [value |-> IF signed /\ s[1] = "-" THEN 0 - DecimalValue(body)
                                                 ELSE DecimalValue(body),
              err |-> FALSE]

\* time.Parse, one chunk of the layout against the rest of the value.
ParseChunk(acc, chunk) ==
    LET bad == [acc EXCEPT !.err = TRUE] IN
    IF acc.err THEN acc
    ELSE IF chunk = "/"
        THEN IF acc.value # << >> /\ acc.value[1] = "/"
                THEN [acc EXCEPT !.value = Tail(@)] ELSE bad
    ELSE IF chunk \in {"02", "2"}
        THEN LET g == getnum(acc.value, chunk = "02")
             IN  IF g.err THEN bad ELSE [acc EXCEPT !.day = g.n, !.value = g.rest]
    ELSE IF chunk \in {"01", "1"}
        THEN LET g == getnum(acc.value, chunk = "01")
             IN  IF g.err \/ g.n <= 0 \/ 12 < g.n THEN bad
                 ELSE [acc EXCEPT !.month = g.n, !.value = g.rest]
    ELSE IF chunk = "2006"
        THEN IF Len(acc.value) < 4 \/ ~IsDigitAt(acc.value, 1) THEN bad
             ELSE LET y == timeAtoi(SubSeq(acc.value, 1, 4))
                  IN  IF y.err THEN bad
                      ELSE [acc EXCEPT !.year = y.value,
                                       !.value = SubSeq(@, 5, Len(@))]
    ELSE IF Len(acc.value) < 2 THEN bad
         ELSE LET y == timeAtoi(SubSeq(acc.value, 1, 2))
              IN  IF y.err THEN bad
                  ELSE [acc EXCEPT !.year = IF y.value >= 69 THEN y.value + 1900
                                                             ELSE y.value + 2000,
                                   !.value = SubSeq(@, 3, Len(@))]

RECURSIVE ParseChunks(_, _, _)
ParseChunks(acc, layout, i) ==
    IF i > Len(layout) THEN acc
    ELSE ParseChunks(ParseChunk(acc, layout[i]), layout, i + 1)

isLeap(year) == year % 4 = 0 /\ (year % 100 # 0 \/ year % 400 = 0)

daysIn(m, year) ==
    IF m = 2 THEN (IF isLeap(year) THEN 29 ELSE 28)
    ELSE IF m \in {4, 6, 9, 11} THEN 30 ELSE 31

\* time.Parse(layout, value) for a layout of day, month and year: every chunk
\* must match, nothing may be left over and the day must exist in the month.
timeParse(layout, value) ==
    LET r == ParseChunks([day |-> 0, month |-> 1, year |-> 1, value |-> value,
                          err |-> FALSE], layout, 1)
    IN  IF r.err \/ r.value # << >> \/ r.day < 1 \/ r.day > daysIn(r.month, r.year)
            THEN [date |-> ZeroDate, err |-> TRUE]
        ELSE [date |-> Date(r.year, r.month, r.day), err |-> FALSE]

\* parser.go:171-177, the loop over the formats from the i-th on.
RECURSIVE TryFormats(_, _)
TryFormats(dateText, i) ==
    IF i > Len(Formats) THEN [date |-> ZeroDate, err |-> TRUE]
    ELSE IF ~timeParse(Formats[i], dateText).err THEN timeParse(Formats[i], dateText)
    ELSE TryFormats(dateText, i + 1)

\* parser.go:160-182 parseEventDate
parseEventDate(dateText) == TryFormats(TrimSpace(dateText), 1)

\* -------------------------------------------------------------- extractor
\* goquery AttrOr: an attribute is << >> when the element lacks it and
\* <<text>> when it has it.
AttrOr(attr, default) == IF attr = << >> THEN default ELSE attr[1]

parkrun == <<"p", "a", "r", "k", "r", "u", "n">>

\* parser.go:110-154 with a row whose time does not parse kept, its time 0.
ScrapeRowKeepsBadTime(acc, s) ==
    LET position == Atoi(AttrOr(s.dataPosition, <<"0">>)).value
        runsText == s.detailed
        totalRuns == IF Contains(runsText, parkrun)
                        THEN Atoi(Split(runsText, " ")[1]).value ELSE 0
        time == TrimSpace(s.timeCell)
        seconds == timeToSeconds(time)
    IN  [acc EXCEPT !.results = Append(@,
                        [Position |-> position, Name |-> s.dataName, Time |-> time,
                         TimeSeconds |-> IF s.dataName # "Unknown" THEN seconds.value ELSE 0,
                         AgeGrade |-> s.dataAgegrade, AgeCategory |-> s.dataAgegroup,
                         Note |-> s.dataAchievement, TotalRuns |-> totalRuns]),
                    !.processedRows = @ + 1]

\* parser.go:110-154, the callback of resultRows.Each on one row s.
ScrapeRow(acc, s) ==
    LET position == Atoi(AttrOr(s.dataPosition, <<"0">>)).value
        runsText == s.detailed
        totalRuns == IF Contains(runsText, parkrun)
                        THEN Atoi(Split(runsText, " ")[1]).value ELSE 0
        time == TrimSpace(s.timeCell)
        seconds == timeToSeconds(time)
    IN  IF s.dataName # "Unknown" /\ seconds.err
            THEN [acc EXCEPT !.skippedRows = @ + 1]
        ELSE [acc EXCEPT !.results = Append(@,
                        [Position |-> position, Name |-> s.dataName, Time |-> time,
                         TimeSeconds |-> IF s.dataName # "Unknown" THEN seconds.value ELSE 0,
                         AgeGrade |-> s.dataAgegrade, AgeCategory |-> s.dataAgegroup,
                         Note |-> s.dataAchievement, TotalRuns |-> totalRuns]),
                         !.processedRows = @ + 1]

\* parser.go:108-154, resultRows.Each from the i-th row on.
RECURSIVE ScrapeRows(_, _, _)
ScrapeRows(acc, rows, i) ==
    IF i > Len(rows) THEN acc ELSE ScrapeRows(ScrapeRow(acc, rows[i]), rows, i + 1)

\* parser.go:88-157 with a date that does not parse reported as an error.
scrapeEventDateRequired(doc, url, eventNumber) ==
    LET eventDate == parseEventDate(doc.dateText)
        each == ScrapeRows([results |-> << >>, processedRows |-> 0, skippedRows |-> 0],
                           doc.rows, 1)
    IN  IF eventDate.err
            THEN [event |-> [EventNumber |-> 0, LocationID |-> 0, Date |-> ZeroDate,
                             URL |-> [slug |-> "", number |-> 0]],
                  results |-> << >>, processedRows |-> 0, skippedRows |-> 0, err |-> TRUE]
        ELSE [event |-> [EventNumber |-> eventNumber, LocationID |-> 0,
                         Date |-> eventDate.date, URL |-> url],
              results |-> each.results, processedRows |-> each.processedRows,
              skippedRows |-> each.skippedRows, err |-> FALSE]

\* parser.go:88-157 scrapeEvent once the response is a parsed document: the
\* date, the Event, the rows.  (The failures before that are the "http",
\* "network" and "html" responses of ParseResults.)
scrapeEvent(doc, url, eventNumber) ==
    LET eventDate == parseEventDate(doc.dateText)
        each == ScrapeRows([results |-> << >>, processedRows |-> 0, skippedRows |-> 0],
                           doc.rows, 1)
    IN  [event |-> [EventNumber |-> eventNumber, LocationID |-> 0,
                    Date |-> eventDate.date, URL |-> url],
         results |-> each.results, processedRows |-> each.processedRows,
         skippedRows |-> each.skippedRows, err |-> FALSE]

\* ---------------------------------------------------------------- reports
\* Go's integer division and remainder, which truncate towards zero.
GoDiv(a, b) == IF a >= 0 THEN a \div b ELSE 0 - ((0 - a) \div b)

GoMod(a, b) == a - b * GoDiv(a, b)

\* The decimal digits of n >= 0, most significant first.
RECURSIVE FormatNat(_)
FormatNat(n) ==
    IF n < 10 THEN <<Digits[n + 1]>>
    ELSE Append(FormatNat(n \div 10), Digits[(n % 10) + 1])

\* fmt's %d
FormatInt(n) == IF n < 0 THEN <<"-">> \o FormatNat(0 - n) ELSE FormatNat(n)

\* fmt's %02d: padded with zeros to two characters, the sign included.
FormatInt02(n) ==
    IF n < 0 THEN FormatInt(n)
    ELSE IF n < 10 THEN <<"0">> \o FormatNat(n)
    ELSE FormatNat(n)

\* reports.go secondsToTime with the minutes not zero-padded.
secondsToTimeBarePad(seconds) ==
    LET hours == GoDiv(seconds, 3600)
        minutes == GoDiv(GoMod(seconds, 3600), 60)
        secs == GoMod(seconds, 60)
    IN  IF seconds = 0 THEN Unknown
        ELSE IF hours > 0
            THEN FormatInt(hours) \o <<":">> \o FormatInt(minutes)
                     \o <<":">> \o FormatInt02(secs)
        ELSE FormatInt(minutes) \o <<":">> \o FormatInt02(secs)

\* reports.go:762-776 secondsToTime
secondsToTime(seconds) ==
    LET hours == GoDiv(seconds, 3600)
        minutes == GoDiv(GoMod(seconds, 3600), 60)
        secs == GoMod(seconds, 60)
    IN  IF seconds = 0 THEN Unknown
        ELSE IF hours > 0
            THEN FormatInt(hours) \o <<":">> \o FormatInt02(minutes)
                     \o <<":">> \o FormatInt02(secs)
        ELSE FormatInt(minutes) \o <<":">> \o FormatInt02(secs)

\* The characters of time texts and category codes in byte order.
Ascii ==
    <<" ", "-", "/", "0", "1", "2", "3", "4", "5", "6", "7", "8", "9", ":",
      "A", "B", "C", "D", "E", "F", "G", "H", "I", "J", "K", "L", "M", "N", "O",
      "P", "Q", "R", "S", "T", "U", "V", "W", "X", "Y", "Z",
      "k", "n", "o", "w">>

CharRank(c) == CHOOSE i \in 1..Len(Ascii) : Ascii[i] = c

\* Go's < on strings: byte-wise lexicographic.
RECURSIVE StringLess(_, _)
StringLess(a, b) ==
    IF b = << >> THEN FALSE
    ELSE IF a = << >> THEN TRUE
    ELSE IF a[1] = b[1] THEN StringLess(Tail(a), Tail(b))
    ELSE CharRank(a[1]) < CharRank(b[1])

RECURSIVE InsertString(_, _)
InsertString(sorted, s) ==
    IF sorted = << >> THEN <<s>>
    ELSE IF StringLess(s, sorted[1]) THEN <<s>> \o sorted
    ELSE <<sorted[1]>> \o InsertString(Tail(sorted), s)

\* sort.Strings
RECURSIVE SortStrings(_)
SortStrings(strs) ==
    IF strs = << >> THEN << >>
    ELSE InsertString(SortStrings(Tail(strs)), strs[1])

NotAvailable == <<"N", "/", "A">>

\* reports.go:624-631 calculateMedianTime
calculateMedianTime(times) ==
    IF Len(times) = 0 THEN NotAvailable
    ELSE SortStrings(times)[(Len(times) \div 2) + 1]

\* reports.go:456-466, the rows of the query: results joined with the events
\* of the location, with a time above 0 and a category that is not ''.
MedianRows(d, locationID) ==
    { r \in d.results :
          /\ \E e \in d.events : e.id = r.event_id /\ e.location_id = locationID
          /\ r.time_seconds # << >> /\ r.time_seconds[1] > 0
          /\ r.age_category # << >> }

\* reports.go:474-486, categoryTimes[category] after sort.Ints.
RECURSIVE SortedTimes(_)
SortedTimes(rows) ==
    IF rows = {} THEN << >>
    ELSE LET first == CHOOSE r \in rows :
                          \A q \in rows : r.time_seconds[1] <= q.time_seconds[1]
         IN  <<first.time_seconds[1]>> \o SortedTimes(rows \ {first})

\* reports.go:487-494 with the element at n/2 for every n.
medianOfUpperMiddle(times) ==
    IF Len(times) > 0 THEN times[(Len(times) \div 2) + 1] ELSE 0

\* reports.go:487-494, the median of the sorted times.
medianOf(times) ==
    LET n == Len(times) IN
    IF n % 2 = 0 /\ n > 0 THEN GoDiv(times[n \div 2] + times[(n \div 2) + 1], 2)
    ELSE IF n > 0 THEN times[(n \div 2) + 1]
    ELSE 0

\* reports.go:485-499, the TimeStats of one category.
CategoryStat(d, locationID, category) ==
    LET times == SortedTimes({ r \in MedianRows(d, locationID) : r.age_category = category })
    IN  [Category |-> category, Median |-> secondsToTime(medianOf(times)),
         Count |-> Len(times)]

\* reports.go:502-505, the categories in ascending order.
RECURSIVE SortedCategories(_)
SortedCategories(cats) ==
    IF cats = {} THEN << >>
    ELSE LET first == CHOOSE c \in cats : \A q \in cats : ~StringLess(q, c)
         IN  <<first>> \o SortedCategories(cats \ {first})

\* reports.go:456-509 GetMedianTimesByAgeCategory
GetMedianTimesByAgeCategory(d, locationID) ==
    LET cats == SortedCategories({ r.age_category : r \in MedianRows(d, locationID) })
    IN  [i \in 1..Len(cats) |-> CategoryStat(d, locationID, cats[i])]

\* reports.go:422-429 without the filter on the name.
TopRowsWithUnknown(d, locationID) ==
    { r \in d.results : \E e \in d.events : e.id = r.event_id /\ e.location_id = locationID }

\* reports.go:422-429, the rows the query groups: results joined with the
\* events of the location, the name 'Unknown' left out.
TopRows(d, locationID) ==
    { r \in d.results :
          /\ \E e \in d.events : e.id = r.event_id /\ e.location_id = locationID
          /\ r.name # "Unknown" }

\* reports.go:422-430, GROUP BY r.name with COUNT(*).
RunnerStats(d, locationID) ==
    { [Name |-> n, TotalRuns |-> Cardinality({ r \in TopRows(d, locationID) : r.name = n })] :
          n \in { r.name : r \in TopRows(d, locationID) } }

\* reports.go:420-454 GetTopParticipants: every answer ORDER BY run_count DESC
\* LIMIT ? allows (SQL leaves the order of equal counts open).
GetTopParticipants(d, locationID, limit) ==
    LET all == RunnerStats(d, locationID)
        k == IF limit < Cardinality(all) THEN limit ELSE Cardinality(all)
    IN  { s \in [1..k -> all] :
              /\ \A i, j \in 1..k : i # j => s[i] # s[j]
              /\ \A i \in 1..(k - 1) : s[i].TotalRuns >= s[i + 1].TotalRuns
              /\ \A x \in all : (\A i \in 1..k : s[i] # x)
                                    => \A i \in 1..k : s[i].TotalRuns >= x.TotalRuns }

\* reports.go:593-597, SELECT COUNT(DISTINCT name) over the results joined
\* with the events of the location.
CountRunners(d, locationID) ==
    Cardinality({ r.name : r \in { q \in d.results :
                      \E e \in d.events : e.id = q.event_id /\ e.location_id = locationID } })

NoStats ==
    [err |-> TRUE, total_events |-> 0, total_runners |-> 0,
     biggest_event_count |-> 0, smallest_event_count |-> 0]

\* reports.go:512-621 GetLocationStats.  MIN(date) of no event is NULL and
\* does not scan into a string; the biggest-event query of a location without
\* results has no row: both return an error.
GetLocationStats(d, locationID) ==
    LET events == { e \in d.events : e.location_id = locationID }
        Count(e) == Cardinality({ r \in d.results : r.event_id = e.id })
        joined == { e \in events : Count(e) > 0 }
    IN  IF events = {} \/ joined = {} THEN NoStats
        ELSE [err |-> FALSE, total_events |-> Cardinality(events),
              total_runners |-> CountRunners(d, locationID),
              biggest_event_count |-> Max({ Count(e) : e \in joined }),
              smallest_event_count |-> 0 - Max({ 0 - Count(e) : e \in joined })]

\* reports.go:632-653 GetAvailableLocations
GetAvailableLocations(d) == { l.slug : l \in d.locations }

GroupNames == {"Juniors", "Men", "Women", "Other"}

\* reports.go:722-733 and 860-870, the group of a two-character prefix.
GroupOfPrefix(prefix) ==
    IF prefix \in {<<"J", "M">>, <<"J", "W">>} THEN "Juniors"
    ELSE IF prefix \in {<<"S", "M">>, <<"V", "M">>} THEN "Men"
    ELSE IF prefix \in {<<"S", "W">>, <<"V", "W">>} THEN "Women"
    ELSE "Other"

\* category[:2] panics (slice bounds out of range) on a shorter string.
SlicePanics(category) == Len(category) < 2

GroupOf(category) == GroupOfPrefix(SubSeq(category, 1, 2))

\* count copies of text
Repeat(text, count) == [i \in 1..count |-> text]

\* reports.go:721-740, groupTimes[groupName] after the loop over times from
\* the i-th stat on.
RECURSIVE GroupTimes(_, _, _)
GroupTimes(times, groupName, i) ==
    IF i > Len(times) THEN << >>
    ELSE (IF GroupOf(times[i].Category) = groupName
             THEN Repeat(times[i].Median, times[i].Count) ELSE << >>)
         \o GroupTimes(times, groupName, i + 1)

\* The stats of the sequence that belong to the group, in order.
RECURSIVE GroupStats(_, _, _)
GroupStats(times, groupName, i) ==
    IF i > Len(times) THEN << >>
    ELSE (IF GroupOf(times[i].Category) = groupName THEN <<times[i].Category>> ELSE << >>)
         \o GroupStats(times, groupName, i + 1)

NoReply ==
    [op |-> "none", outcome |-> "none", notFound |-> FALSE, listed |-> FALSE,
     locations |-> {}, runners |-> << >>, times |-> << >>,
     groups |-> [g \in GroupNames |-> << >>],
     overall |-> [g \in GroupNames |-> << >>],
     stats |-> NoStats, text |-> << >>]

\* reports.go:656-760 PrintReports: what it returns and what it prints of
\* the groups.  outcome is "ok" (nil), "error" or "panic".
PrintReports(d, locationSlug) ==
    LET present == { l \in d.locations : l.slug = locationSlug } IN
    IF present = {}
        THEN [NoReply EXCEPT !.outcome = "error", !.notFound = TRUE, !.listed = TRUE,
                             !.locations = GetAvailableLocations(d)]
    ELSE LET locationID == (CHOOSE l \in present : TRUE).id
             stats == GetLocationStats(d, locationID)
             times == GetMedianTimesByAgeCategory(d, locationID)
         IN  IF stats.err THEN [NoReply EXCEPT !.outcome = "error"]
             ELSE IF \E i \in 1..Len(times) : SlicePanics(times[i].Category)
                 THEN [NoReply EXCEPT !.outcome = "panic", !.stats = stats]
             ELSE [NoReply EXCEPT
                       !.outcome = "ok", !.stats = stats, !.times = times,
                       !.groups = [g \in GroupNames |-> GroupStats(times, g, 1)],
                       !.overall = [g \in GroupNames |->
                                        calculateMedianTime(GroupTimes(times, g, 1))]]

\* reports.go:923-943 getLocationStats
getLocationStats(d, locationSlug) ==
    LET present == { l \in d.locations : l.slug = locationSlug } IN
    IF present = {} THEN [err |-> TRUE, notFound |-> TRUE, location_id |-> 0, stats |-> NoStats]
    ELSE LET locationID == (CHOOSE l \in present : TRUE).id
         IN  [err |-> GetLocationStats(d, locationID).err, notFound |-> FALSE,
              location_id |-> locationID, stats |-> GetLocationStats(d, locationID)]

\* reports.go:800-898 PrintComparisonReport; each group is sorted
\* (sort.Strings).
PrintComparisonReport(d, location1, location2) ==
    LET stats1 == getLocationStats(d, location1)
        stats2 == getLocationStats(d, location2)
    IN  IF stats1.err
            THEN [NoReply EXCEPT !.outcome = "error", !.notFound = stats1.notFound]
        ELSE IF stats2.err
            THEN [NoReply EXCEPT !.outcome = "error", !.notFound = stats2.notFound]
        ELSE LET times1 == GetMedianTimesByAgeCategory(d, stats1.location_id)
                 times2 == GetMedianTimesByAgeCategory(d, stats2.location_id)
                 categories == { times1[i].Category : i \in 1..Len(times1) }
                                   \cup { times2[i].Category : i \in 1..Len(times2) }
             IN  IF \E cat \in categories : SlicePanics(cat)
                     THEN [NoReply EXCEPT !.outcome = "panic"]
                 ELSE [NoReply EXCEPT
                           !.outcome = "ok", !.stats = stats1.stats, !.times = times1,
                           !.groups = [g \in GroupNames |->
                               SortedCategories({ c \in categories : GroupOf(c) = g })]]

\* No report is asked for.
NoRequest ==
    [op |-> "none", locationID |-> 0, limit |-> 0, location1 |-> "", location2 |-> "",
     seconds |-> 0, times |-> << >>]

\* ------------------------------------------------------------------ state
VARIABLES
    db,                 \* ./parkrun.db
    pc,                 \* where the running process is: idle, clear, location,
                        \* next, fetch, handle, storeEvent, storeResults, done, fatal
    urlSlug, clearData, \* arguments of parseAndStoreResults
    locationID, eventID, consecutiveErrors, \* its locals
    resp,               \* what the last ParseResults call returned
    dbEventID,          \* id returned by StoreEvent
    notice,             \* how the loop ended: none, exhausted (main.go:163), maxErrors (main.go:170)
    runs,               \* program runs started
    fetched,            \* event number of the last request of this run, 0 before the first
    errsAtFetch,        \* consecutiveErrors when that request was sent
    streak405,          \* 405 responses in a row up to that request, counted to StreakCap
    sleptSince,         \* seconds slept since that request
    errsSinceSuccess,   \* unclassified failures since the last successful fetch of this run
    queryFailed,        \* the MAX(event_number) query of this run returned an error
    dbAtStart,          \* the store when this run started
    lastCall,           \* the last direct store call (SpecStore)
    calls,              \* direct store calls made (SpecStore)
    input,              \* what the extractor is called on (SpecExtract)
    parsed,             \* what the extractor returned (SpecExtract)
    request,            \* the report call asked for (SpecReport)
    reply               \* what it returned (SpecReport)

runVars == <<pc, urlSlug, clearData, locationID, eventID, consecutiveErrors, resp,
             dbEventID, notice, runs, fetched, errsAtFetch, streak405, sleptSince,
             errsSinceSuccess, queryFailed, dbAtStart>>
callVars == <<lastCall, calls>>
textVars == <<input, parsed>>
reportVars == <<request, reply>>
vars == <<db, runVars, callVars, textVars, reportVars>>

NoCall ==
    [op |-> "none", event |-> NoEvent, results |-> << >>,
     conflict |-> FALSE, repeat |-> FALSE, before |-> EmptyDB,
     slug |-> "", failAt |-> "none", err |-> FALSE,
     id |-> 0, failed |-> {}, successCount |-> 0, errorCount |-> 0]

\* No document: no date text, no rows.
NoDoc == [dateText |-> << >>, rows |-> << >>]

\* The extractor is not called.
NoInput ==
    [kind |-> "none", slug |-> "", eventNumber |-> 0, doc |-> NoDoc,
     parts |-> << >>, text |-> << >>]

\* Nothing extracted yet.
NoParsed ==
    [op |-> "none", event |-> [EventNumber |-> 0, LocationID |-> 0, Date |-> ZeroDate,
                                URL |-> [slug |-> "", number |-> 0]],
     results |-> << >>, processedRows |-> 0, skippedRows |-> 0, err |-> FALSE,
     seconds |-> 0, date |-> ZeroDate]

\* Every variable of the ingest process but the store.
InitRun ==
    /\ pc = "idle"
    /\ urlSlug = ""
    /\ clearData = FALSE
    /\ locationID = 0
    /\ eventID = 0
    /\ consecutiveErrors = 0
    /\ resp = NoResponse
    /\ dbEventID = 0
    /\ notice = "none"
    /\ runs = 0
    /\ fetched = 0
    /\ errsAtFetch = 0
    /\ streak405 = 0
    /\ sleptSince = 0
    /\ errsSinceSuccess = 0
    /\ queryFailed = FALSE
    /\ dbAtStart = EmptyDB
    /\ lastCall = NoCall
    /\ calls = 0

InitProgram ==
    /\ db = EmptyDB
    /\ InitRun
    /\ request = NoRequest
    /\ reply = NoReply

Init ==
    /\ InitProgram
    /\ input = NoInput
    /\ parsed = NoParsed

\* ------------------------------------------------------- the ingest process
\* main.go:14-43 and 105-113: `parse [--clear] <slug>` starts a process once
\* the previous one has exited; opening the database or creating the tables
\* can fail (log.Fatal).
StartRun(slug, clear, setupErr) ==
    /\ pc \in {"idle", "done", "fatal"}
    /\ runs < MaxRuns
    /\ runs' = runs + 1
    /\ urlSlug' = slug
    /\ clearData' = clear
    /\ pc' = IF setupErr THEN "fatal" ELSE IF clear THEN "clear" ELSE "location"
    /\ locationID' = 0
    /\ eventID' = 0
    /\ consecutiveErrors' = 0
    /\ resp' = NoResponse
    /\ dbEventID' = 0
    /\ notice' = "none"
    /\ fetched' = 0
    /\ errsAtFetch' = 0
    /\ streak405' = 0
    /\ sleptSince' = 0
    /\ errsSinceSuccess' = 0
    /\ queryFailed' = FALSE
    /\ dbAtStart' = db
    /\ UNCHANGED <<db, callVars, textVars, reportVars>>

\* main.go:115-122
ClearStep(failAt) ==
    /\ pc = "clear"
    /\ LET r == ClearLocationData(db, urlSlug, failAt) IN
        /\ db' = r.db
        /\ pc' = IF r.err THEN "fatal" ELSE "location"
    /\ UNCHANGED <<urlSlug, clearData, locationID, eventID, consecutiveErrors, resp,
                   dbEventID, notice, runs, fetched, errsAtFetch, streak405, sleptSince,
                   errsSinceSuccess, queryFailed, dbAtStart, callVars, textVars, reportVars>>

\* main.go:124-140
LocationStep(insErr, selErr) ==
    /\ pc = "location"
    /\ LET r == UpsertLocation(db, urlSlug, insErr, selErr) IN
        /\ db' = r.db
        /\ locationID' = r.id
        /\ pc' = IF r.fatal THEN "fatal" ELSE "next"
    /\ UNCHANGED <<urlSlug, clearData, eventID, consecutiveErrors, resp,
                   dbEventID, notice, runs, fetched, errsAtFetch, streak405, sleptSince,
                   errsSinceSuccess, queryFailed, dbAtStart, callVars, textVars, reportVars>>

\* main.go:142-149
NextNumberStep(queryErr) ==
    /\ pc = "next"
    /\ eventID' = GetNextEventNumber(db, locationID, queryErr)
    /\ queryFailed' = queryErr
    /\ consecutiveErrors' = 0
    /\ pc' = "fetch"
    /\ UNCHANGED <<db, urlSlug, clearData, locationID, resp,
                   dbEventID, notice, runs, fetched, errsAtFetch, streak405, sleptSince,
                   errsSinceSuccess, dbAtStart, callVars, textVars, reportVars>>

\* main.go:152, the call of ParseResults(urlSlug, eventID)
Fetch(r) ==
    /\ pc = "fetch"
    /\ r \in ParseResults(urlSlug, eventID)
    /\ resp' = r
    /\ fetched' = eventID
    /\ errsAtFetch' = consecutiveErrors
    /\ streak405' = IF r.kind = "http" /\ r.code = 405
                      THEN (IF streak405 < StreakCap THEN streak405 + 1 ELSE StreakCap)
                      ELSE 0
    /\ sleptSince' = 0
    /\ pc' = "handle"
    /\ UNCHANGED <<db, urlSlug, clearData, locationID, eventID, consecutiveErrors,
                   dbEventID, notice, runs, errsSinceSuccess, queryFailed,
                   dbAtStart, callVars, textVars, reportVars>>

IsHTTPError(r, code) == r.kind = "http" /\ r.code = code
IsUnclassified(r) ==
    /\ r.kind \in {"http", "network", "html"}
    /\ ~IsHTTPError(r, 405)
    /\ ~IsHTTPError(r, 425)

\* HandleRateLimited with the 405 case falling through to the error count.
HandleRateLimitedCounted ==
    /\ pc = "handle"
    /\ IsHTTPError(resp, 405)
    /\ consecutiveErrors' = consecutiveErrors + 1
    /\ sleptSince' = sleptSince + RateLimitBackoff
    /\ pc' = "fetch"
    /\ UNCHANGED <<db, urlSlug, clearData, locationID, eventID, resp,
                   dbEventID, notice, runs, fetched, errsAtFetch, streak405,
                   errsSinceSuccess, queryFailed, dbAtStart, callVars, textVars, reportVars>>

\* main.go:158-161
HandleRateLimited ==
    /\ pc = "handle"
    /\ IsHTTPError(resp, 405)
    /\ sleptSince' = sleptSince + RateLimitBackoff
    /\ pc' = "fetch"
    /\ UNCHANGED <<db, urlSlug, clearData, locationID, eventID, consecutiveErrors, resp,
                   dbEventID, notice, runs, fetched, errsAtFetch, streak405,
                   errsSinceSuccess, queryFailed, dbAtStart, callVars, textVars, reportVars>>

\* HandleExhausted without the `case 425`: the response counts as a failure.
HandleExhaustedAsError ==
    /\ pc = "handle"
    /\ IsHTTPError(resp, 425)
    /\ consecutiveErrors' = consecutiveErrors + 1
    /\ IF consecutiveErrors + 1 >= MaxConsecutiveErrors
          THEN /\ notice' = "maxErrors"
               /\ pc' = "done"
               /\ UNCHANGED sleptSince
          ELSE /\ sleptSince' = sleptSince + WaitBetweenRequests
               /\ pc' = "fetch"
               /\ UNCHANGED notice
    /\ UNCHANGED <<db, urlSlug, clearData, locationID, eventID, resp,
                   dbEventID, runs, fetched, errsAtFetch, streak405,
                   errsSinceSuccess, queryFailed, dbAtStart, callVars, textVars, reportVars>>

\* main.go:162-164
HandleExhausted ==
    /\ pc = "handle"
    /\ IsHTTPError(resp, 425)
    /\ notice' = "exhausted"
    /\ pc' = "done"
    /\ UNCHANGED <<db, urlSlug, clearData, locationID, eventID, consecutiveErrors, resp,
                   dbEventID, runs, fetched, errsAtFetch, streak405, sleptSince,
                   errsSinceSuccess, queryFailed, dbAtStart, callVars, textVars, reportVars>>

\* HandleError with > in place of >= at main.go:169.
HandleErrorOffByOne ==
    /\ pc = "handle"
    /\ IsUnclassified(resp)
    /\ consecutiveErrors' = consecutiveErrors + 1
    /\ errsSinceSuccess' = errsSinceSuccess + 1
    /\ IF consecutiveErrors + 1 > MaxConsecutiveErrors
          THEN /\ notice' = "maxErrors"
               /\ pc' = "done"
               /\ UNCHANGED sleptSince
          ELSE /\ sleptSince' = sleptSince + WaitBetweenRequests
               /\ pc' = "fetch"
               /\ UNCHANGED notice
    /\ UNCHANGED <<db, urlSlug, clearData, locationID, eventID, resp,
                   dbEventID, runs, fetched, errsAtFetch, streak405,
                   queryFailed, dbAtStart, callVars, textVars, reportVars>>

\* main.go:168-174 (and 198 after the break)
HandleError ==
    /\ pc = "handle"
    /\ IsUnclassified(resp)
    /\ consecutiveErrors' = consecutiveErrors + 1
    /\ errsSinceSuccess' = errsSinceSuccess + 1
    /\ IF consecutiveErrors + 1 >= MaxConsecutiveErrors
          THEN /\ notice' = "maxErrors"
               /\ pc' = "done"
               /\ UNCHANGED sleptSince
          ELSE /\ sleptSince' = sleptSince + WaitBetweenRequests
               /\ pc' = "fetch"
               /\ UNCHANGED notice
    /\ UNCHANGED <<db, urlSlug, clearData, locationID, eventID, resp,
                   dbEventID, runs, fetched, errsAtFetch, streak405,
                   queryFailed, dbAtStart, callVars, textVars, reportVars>>

\* HandleSuccess without the reset of main.go:180.
HandleSuccessNoReset ==
    /\ pc = "handle"
    /\ resp.kind = "ok"
    /\ resp' = [resp EXCEPT !.event.LocationID = locationID]
    /\ errsSinceSuccess' = 0
    /\ pc' = "storeEvent"
    /\ UNCHANGED <<db, urlSlug, clearData, locationID, eventID, consecutiveErrors,
                   dbEventID, notice, runs, fetched, errsAtFetch, streak405, sleptSince,
                   queryFailed, dbAtStart, callVars, textVars, reportVars>>

\* main.go:177-180
HandleSuccess ==
    /\ pc = "handle"
    /\ resp.kind = "ok"
    /\ resp' = [resp EXCEPT !.event.LocationID = locationID]
    /\ consecutiveErrors' = 0
    /\ errsSinceSuccess' = 0
    /\ pc' = "storeEvent"
    /\ UNCHANGED <<db, urlSlug, clearData, locationID, eventID,
                   dbEventID, notice, runs, fetched, errsAtFetch, streak405, sleptSince,
                   queryFailed, dbAtStart, callVars, textVars, reportVars>>

\* StoreEventStep without the `continue` of main.go:186: a failed StoreEvent is
\* logged and the results are stored all the same.
StoreEventStepNoContinue(fail) ==
    /\ pc = "storeEvent"
    /\ LET r == StoreEvent(db, resp.event, fail) IN
        /\ db' = r.db
        /\ dbEventID' = r.id
        /\ pc' = "storeResults"
    /\ UNCHANGED <<urlSlug, clearData, locationID, eventID, consecutiveErrors, resp,
                   notice, runs, fetched, errsAtFetch, streak405, sleptSince,
                   errsSinceSuccess, queryFailed, dbAtStart, callVars, textVars, reportVars>>

\* main.go:182-187
StoreEventStep(fail) ==
    /\ pc = "storeEvent"
    /\ LET r == StoreEvent(db, resp.event, fail) IN
        /\ db' = r.db
        /\ dbEventID' = r.id
        /\ pc' = IF r.err THEN "fetch" ELSE "storeResults"
    /\ UNCHANGED <<urlSlug, clearData, locationID, eventID, consecutiveErrors, resp,
                   notice, runs, fetched, errsAtFetch, streak405, sleptSince,
                   errsSinceSuccess, queryFailed, dbAtStart, callVars, textVars, reportVars>>

\* StoreResultsStep without the eventID++ of main.go:194.
StoreResultsStepKeepsNumber(failed) ==
    /\ pc = "storeResults"
    /\ failed \subseteq 1..Len(resp.results)
    /\ db' = IF Len(resp.results) > 0
                THEN StoreResults(db, resp.results, dbEventID, failed)
                ELSE db
    /\ sleptSince' = sleptSince + WaitBetweenRequests
    /\ pc' = "fetch"
    /\ UNCHANGED <<urlSlug, clearData, locationID, eventID, consecutiveErrors, resp,
                   dbEventID, notice, runs, fetched, errsAtFetch, streak405,
                   errsSinceSuccess, queryFailed, dbAtStart, callVars, textVars, reportVars>>

\* main.go:189-195
StoreResultsStep(failed) ==
    /\ pc = "storeResults"
    /\ failed \subseteq 1..Len(resp.results)
    /\ db' = IF Len(resp.results) > 0
                THEN StoreResults(db, resp.results, dbEventID, failed)
                ELSE db
    /\ eventID' = eventID + 1
    /\ sleptSince' = sleptSince + WaitBetweenRequests
    /\ pc' = "fetch"
    /\ UNCHANGED <<urlSlug, clearData, locationID, consecutiveErrors, resp,
                   dbEventID, notice, runs, fetched, errsAtFetch, streak405,
                   errsSinceSuccess, queryFailed, dbAtStart, callVars, textVars, reportVars>>

MaxResults == 2      \* longest result list of a page in SrcResults

Next ==
    \/ \E slug \in Slugs, clear \in BOOLEAN, setupErr \in BOOLEAN : StartRun(slug, clear, setupErr)
    \/ \E failAt \in ClearFailures : ClearStep(failAt)
    \/ \E insErr \in BOOLEAN, selErr \in BOOLEAN : LocationStep(insErr, selErr)
    \/ \E queryErr \in BOOLEAN : NextNumberStep(queryErr)
    \/ \E r \in Responses : Fetch(r)
    \/ HandleRateLimited
    \/ HandleExhausted
    \/ HandleError
    \/ HandleSuccess
    \/ \E fail \in BOOLEAN : StoreEventStep(fail)
    \/ \E failed \in SUBSET (1..MaxResults) : StoreResultsStep(failed)

Spec == Init /\ [][Next]_vars

\* A step of the process that is running: main.go is one goroutine, and
\* every call and sleep of it returns.
ProcessStep ==
    \/ \E failAt \in ClearFailures : ClearStep(failAt)
    \/ \E insErr \in BOOLEAN, selErr \in BOOLEAN : LocationStep(insErr, selErr)
    \/ \E queryErr \in BOOLEAN : NextNumberStep(queryErr)
    \/ \E r \in Responses : Fetch(r)
    \/ HandleRateLimited
    \/ HandleExhausted
    \/ HandleError
    \/ HandleSuccess
    \/ \E fail \in BOOLEAN : StoreEventStep(fail)
    \/ \E failed \in SUBSET (1..MaxResults) : StoreResultsStep(failed)

\* The program runs with a process that has started never stopping between
\* two steps; whether another run is started is up to the operator.
SpecLive == Init /\ [][Next]_vars /\ WF_vars(ProcessStep)

\* ------------------------------------------------- the store, called directly
\* The store operations called one at a time in any order with any arguments,
\* as db_test.go calls them.
LocationIDs == 1..2
EventInputs ==
    { [EventNumber |-> n, LocationID |-> l, Date |-> 1, URL |-> [slug |-> "bushy", number |-> n]] :
        n \in 1..MaxEventNumber, l \in LocationIDs }
ResultInputs ==
    { << >>,
      << Row(1, "Runner A", 1200, "VM35-39") >>,
      << Row(1, "Runner A", 1200, "VM35-39"), Row(1, "Unknown", 0, "") >>,
      << Row(1, "Runner B", 1500, "SW30-34"), Row(2, "Unknown", 0, "") >> }

HasEventKey(d, n, l) == \E e \in d.events : e.event_number = n /\ e.location_id = l
HasResultKey(d, pos, id) == \E r \in d.results : r.position = pos /\ r.event_id = id

\* main.go:124-139 on its own
CallUpsertLocation(slug, insErr, selErr) ==
    /\ pc = "idle"
    /\ calls < MaxCalls
    /\ calls' = calls + 1
    /\ db' = UpsertLocation(db, slug, insErr, selErr).db
    /\ lastCall' = [NoCall EXCEPT !.op = "UpsertLocation",
                                  !.conflict = \E l \in db.locations : l.slug = slug]
    /\ UNCHANGED <<runVars, textVars, reportVars>>

\* db.go StoreEvent on its own
CallStoreEvent(event, fail) ==
    /\ pc = "idle"
    /\ calls < MaxCalls
    /\ calls' = calls + 1
    /\ db' = StoreEvent(db, event, fail).db
    /\ lastCall' = [NoCall EXCEPT !.op = "StoreEvent",
                                  !.conflict = ~fail /\ HasEventKey(db, event.EventNumber, event.LocationID)]
    /\ UNCHANGED <<runVars, textVars, reportVars>>

\* db.go StoreResults on its own
CallStoreResults(rs, id, failed) ==
    /\ pc = "idle"
    /\ calls < MaxCalls
    /\ failed \subseteq 1..Len(rs)
    /\ calls' = calls + 1
    /\ db' = StoreResults(db, rs, id, failed)
    /\ lastCall' = [NoCall EXCEPT !.op = "StoreResults",
                                  !.conflict = \E i \in (1..Len(rs)) \ failed :
                                                  HasResultKey(db, rs[i].Position, id),
                                  !.results = rs, !.id = id, !.failed = failed,
                                  !.successCount = StoreResultsRun(db, rs, id, failed).successCount,
                                  !.errorCount = StoreResultsRun(db, rs, id, failed).errorCount]
    /\ UNCHANGED <<runVars, textVars, reportVars>>

\* main.go:183-192 on its own: StoreEvent, then StoreResults under the id it
\* returned, nothing failing.  repeat: the call before was this very call.
CallStoreEventAndResults(event, rs) ==
    /\ pc = "idle"
    /\ calls < MaxCalls
    /\ calls' = calls + 1
    /\ LET r == StoreEvent(db, event, FALSE) IN
        db' = IF Len(rs) > 0 THEN StoreResults(r.db, rs, r.id, {}) ELSE r.db
    /\ lastCall' = [NoCall EXCEPT !.op = "StoreEventAndResults",
                                  !.event = event, !.results = rs,
                                  !.conflict = HasEventKey(db, event.EventNumber, event.LocationID),
                                  !.repeat = /\ lastCall.op = "StoreEventAndResults"
                                             /\ lastCall.event = event
                                             /\ lastCall.results = rs,
                                  !.before = db]
    /\ UNCHANGED <<runVars, textVars, reportVars>>

\* db.go ClearLocationData on its own
CallClearLocationData(slug, failAt) ==
    /\ pc = "idle"
    /\ calls < MaxCalls
    /\ calls' = calls + 1
    /\ db' = ClearLocationData(db, slug, failAt).db
    /\ lastCall' = [NoCall EXCEPT !.op = "ClearLocationData", !.slug = slug,
                                  !.failAt = failAt,
                                  !.err = ClearLocationData(db, slug, failAt).err]
    /\ UNCHANGED <<runVars, textVars, reportVars>>

NextStore ==
    \/ \E slug \in Slugs, insErr \in BOOLEAN, selErr \in BOOLEAN :
           CallUpsertLocation(slug, insErr, selErr)
    \/ \E event \in EventInputs, fail \in BOOLEAN : CallStoreEvent(event, fail)
    \/ \E rs \in ResultInputs, id \in 1..(db.seqEvt + 1), failed \in SUBSET (1..MaxResults) :
           CallStoreResults(rs, id, failed)
    \/ \E event \in EventInputs, rs \in ResultInputs : CallStoreEventAndResults(event, rs)
    \/ \E slug \in Slugs, failAt \in ClearFailures : CallClearLocationData(slug, failAt)

SpecStore == Init /\ [][NextStore]_vars

\* -------------------------------------------------------- extractor calls
MaxRows == 2         \* result rows of a page
MaxParts == 4        \* ":"-separated components of a time text

\* Components of a time text, each with what it denotes: whether it is a
\* decimal integer and which.
TimeComponents ==
    { [text |-> <<"1">>, isInt |-> TRUE, value |-> 1],
      [text |-> <<"2", "3">>, isInt |-> TRUE, value |-> 23],
      [text |-> <<"4", "5">>, isInt |-> TRUE, value |-> 45],
      [text |-> <<"3", "0">>, isInt |-> TRUE, value |-> 30],
      [text |-> <<"-", "1">>, isInt |-> TRUE, value |-> 0 - 1],
      [text |-> <<"a", "b">>, isInt |-> FALSE, value |-> 0],
      [text |-> << >>, isInt |-> FALSE, value |-> 0],
      [text |-> Unknown, isInt |-> FALSE, value |-> 0] }

\* Time texts as the components they are made of: "23:45", "1:23:45",
\* "23:45:30:1", "ab:45", "-1:30", "" and "Unknown" among them.
TimeInputs == UNION { [1..n -> TimeComponents] : n \in 1..MaxParts }

RECURSIVE Join(_, _)
Join(texts, sep) ==
    IF Len(texts) = 0 THEN << >>
    ELSE IF Len(texts) = 1 THEN texts[1]
    ELSE texts[1] \o <<sep>> \o Join(Tail(texts), sep)

TimeText(parts) == Join([i \in 1..Len(parts) |-> parts[i].text], ":")

\* Date texts with the date they denote in day/month/year reading, if any.
DateInputs ==
    { [text |-> <<"2", "5", "/", "1", "2", "/", "2", "0", "2", "3">>,
       ok |-> TRUE, date |-> Date(2023, 12, 25)],
      [text |-> <<"5", "/", "6", "/", "2", "3">>, ok |-> TRUE, date |-> Date(2023, 6, 5)],
      [text |-> <<"5", "/", "6", "/", "2", "0", "2", "3">>,
       ok |-> TRUE, date |-> Date(2023, 6, 5)],
      [text |-> <<" ", "5", "/", "6", "/", "9", "9", "\n">>,
       ok |-> TRUE, date |-> Date(1999, 6, 5)],
      [text |-> <<"2", "0", "2", "3", "-", "1", "2", "-", "2", "5">>,
       ok |-> FALSE, date |-> ZeroDate],
      [text |-> <<"3", "1", "/", "0", "2", "/", "2", "0", "2", "3">>,
       ok |-> FALSE, date |-> ZeroDate],
      [text |-> <<"5", "/", "1", "3", "/", "2", "3">>, ok |-> FALSE, date |-> ZeroDate],
      [text |-> << >>, ok |-> FALSE, date |-> ZeroDate] }

DateOf(text) == CHOOSE d \in DateInputs : d.text = text

\* data-position attributes with whether they are a positive integer.
PositionInputs ==
    { [attr |-> << <<"1">> >>, valid |-> TRUE],
      [attr |-> << <<"2">> >>, valid |-> TRUE],
      [attr |-> << <<"1", "2">> >>, valid |-> TRUE],
      [attr |-> << >>, valid |-> FALSE],
      [attr |-> << <<"0">> >>, valid |-> FALSE],
      [attr |-> << <<"x">> >>, valid |-> FALSE],
      [attr |-> << <<"-", "3">> >>, valid |-> FALSE] }

PositionOf(attr) == CHOOSE p \in PositionInputs : p.attr = attr

\* A .Results-table-row element: its data attributes, the text of its time
\* cell and of its first .detailed div.
PageRow(position, name, time, detailed) ==
    [dataPosition |-> position, dataName |-> name, dataAgegroup |-> "VM35-39",
     dataAgegrade |-> "50%", dataAchievement |-> "", timeCell |-> time,
     detailed |-> detailed]

RowInputs ==
    { PageRow(<< <<"1">> >>, "Runner A", <<" ", "2", "0", ":", "0", "0", " ">>,
              <<"1", "2", " ", "p", "a", "r", "k", "r", "u", "n", "s">>),
      PageRow(<< <<"2">> >>, "Unknown", << >>, << >>),
      PageRow(<< <<"1", "2">> >>, "Runner C", <<"a", "b", ":", "c", "d">>, << >>),
      PageRow(<< >>, "Runner D", <<"2", "5", ":", "0", "0">>, << >>),
      PageRow(<< <<"0">> >>, "Runner E", <<"1", ":", "0", "2", ":", "0", "3">>,
              <<"1", " ", "p", "a", "r", "k", "r", "u", "n">>),
      PageRow(<< <<"x">> >>, "Runner F", << >>, << >>),
      PageRow(<< <<"-", "3">> >>, "Unknown", <<"a", "b", ":", "c", "d">>, << >>),
      PageRow(<< <<"2">> >>, "Runner H", <<"-", "1", ":", "4", "5">>, << >>) }

\* The documents of results pages: a date text and up to MaxRows rows.
Docs ==
    { [dateText |-> d.text, rows |-> rows] :
          d \in DateInputs, rows \in UNION { [1..n -> RowInputs] : n \in 0..MaxRows } }

\* What the extractor is called on: a page, a time text or a date text.
ExtractInputs ==
    { [NoInput EXCEPT !.kind = "page", !.slug = slug, !.eventNumber = n, !.doc = doc] :
          slug \in Slugs, n \in 1..MaxEventNumber, doc \in Docs }
    \cup { [NoInput EXCEPT !.kind = "time", !.parts = parts, !.text = TimeText(parts)] :
               parts \in TimeInputs }
    \cup { [NoInput EXCEPT !.kind = "date", !.text = d.text] : d \in DateInputs }

InitExtract ==
    /\ InitProgram
    /\ input \in ExtractInputs
    /\ parsed = NoParsed

\* parser.go:51-56 ParseResults on a page that was fetched and parsed
CallScrapeEvent ==
    /\ input.kind = "page"
    /\ parsed.op = "none"
    /\ LET r == scrapeEvent(input.doc, [slug |-> input.slug, number |-> input.eventNumber],
                            input.eventNumber)
       IN  parsed' = [NoParsed EXCEPT !.op = "scrapeEvent", !.event = r.event,
                                      !.results = r.results,
                                      !.processedRows = r.processedRows,
                                      !.skippedRows = r.skippedRows, !.err = r.err]
    /\ UNCHANGED <<db, runVars, callVars, input, reportVars>>

\* parser.go:185 timeToSeconds on its own
CallTimeToSeconds ==
    /\ input.kind = "time"
    /\ parsed.op = "none"
    /\ parsed' = [NoParsed EXCEPT !.op = "timeToSeconds",
                                  !.seconds = timeToSeconds(input.text).value,
                                  !.err = timeToSeconds(input.text).err]
    /\ UNCHANGED <<db, runVars, callVars, input, reportVars>>

\* parser.go:160 parseEventDate on its own
CallParseEventDate ==
    /\ input.kind = "date"
    /\ parsed.op = "none"
    /\ parsed' = [NoParsed EXCEPT !.op = "parseEventDate",
                                  !.date = parseEventDate(input.text).date,
                                  !.err = parseEventDate(input.text).err]
    /\ UNCHANGED <<db, runVars, callVars, input, reportVars>>

NextExtract ==
    \/ CallScrapeEvent
    \/ CallTimeToSeconds
    \/ CallParseEventDate

SpecExtract == InitExtract /\ [][NextExtract]_vars

\* ----------------------------------------------------------- report calls
MaxReportResults == 3    \* result rows of a store a report is run on
MaxLimit == 2            \* limits of GetTopParticipants besides the report's 10
MaxSeconds == 7325       \* seconds formatted by secondsToTime
MaxTimes == 3            \* time texts handed to calculateMedianTime

TopLimit == 10

\* The stores reports are run on have the locations and events of
\* insertTestData: two locations, events 1 and 2 of the first and event 1 of
\* the second.
ReportLocations ==
    { [id |-> 1, slug |-> "bushy", name |-> "NULL", country |-> DefaultCountry],
      [id |-> 2, slug |-> "westerfolds", name |-> "NULL", country |-> DefaultCountry] }

ReportEvents ==
    { [id |-> 1, event_number |-> 1, location_id |-> 1, date |-> 1,
       url |-> [slug |-> "bushy", number |-> 1]],
      [id |-> 2, event_number |-> 2, location_id |-> 1, date |-> 2,
       url |-> [slug |-> "bushy", number |-> 2]],
      [id |-> 3, event_number |-> 1, location_id |-> 2, date |-> 1,
       url |-> [slug |-> "westerfolds", number |-> 1]] }

\* (event id, position) of the result rows, numbered
ReportSlots ==
    << [event_id |-> 1, position |-> 1], [event_id |-> 1, position |-> 2],
       [event_id |-> 2, position |-> 1], [event_id |-> 3, position |-> 1] >>

\* name, time_seconds and age_category of the result rows
ReportContents ==
    { [name |-> "Runner A", time_seconds |-> <<1180>>,
       age_category |-> <<"V", "M", "3", "5", "-", "3", "9">>],
      [name |-> "Runner B", time_seconds |-> <<1191>>,
       age_category |-> <<"V", "M", "3", "5", "-", "3", "9">>],
      [name |-> "Runner C", time_seconds |-> <<1200>>,
       age_category |-> <<"V", "M", "3", "5", "-", "3", "9">>],
      [name |-> "Runner A", time_seconds |-> <<1500>>,
       age_category |-> <<"S", "M", "2", "5", "-", "2", "9">>],
      [name |-> "Unknown", time_seconds |-> << >>, age_category |-> << >>],
      [name |-> "Runner C", time_seconds |-> <<3725>>,
       age_category |-> <<"S", "W", "3", "0", "-", "3", "4">>],
      [name |-> "Runner D", time_seconds |-> <<599>>,
       age_category |-> <<"J", "W", "1", "0">>],
      [name |-> "Runner B", time_seconds |-> <<1600>>, age_category |-> <<"X">>],
      [name |-> "Runner D", time_seconds |-> <<1700>>,
       age_category |-> <<"W", "W", "C">>] }

ReportRow(slot, content) ==
    [id |-> slot, position |-> ReportSlots[slot].position, name |-> content.name,
     time_seconds |-> content.time_seconds, age_grade |-> "50%",
     age_category |-> content.age_category, note |-> "", total_runs |-> 1,
     event_id |-> ReportSlots[slot].event_id]

\* Stores of up to MaxReportResults result rows, and two stores without
\* events: one with no location, one with a single location.
ReportStores ==
    { [locations |-> ReportLocations, events |-> ReportEvents,
       results |-> { ReportRow(slot, rows[slot]) : slot \in DOMAIN rows },
       seqLoc |-> 2, seqEvt |-> 3, seqRes |-> Len(ReportSlots)] :
          rows \in UNION { [S -> ReportContents] :
                              S \in { T \in SUBSET (1..Len(ReportSlots)) :
                                          Cardinality(T) <= MaxReportResults } } }
    \cup { EmptyDB,
           [EmptyDB EXCEPT !.locations = { l \in ReportLocations : l.id = 1 },
                           !.seqLoc = 1] }

ReportSlugs == Slugs \cup {"albert"}

\* The requests that read the store.
StoreRequests ==
    { [NoRequest EXCEPT !.op = "GetTopParticipants", !.locationID = id, !.limit = limit] :
          id \in 1..2, limit \in (1..MaxLimit) \cup {TopLimit} }
    \cup { [NoRequest EXCEPT !.op = op, !.locationID = id] :
               op \in {"GetMedianTimesByAgeCategory", "GetLocationStats"}, id \in 1..2 }
    \cup { [NoRequest EXCEPT !.op = "PrintReports", !.location1 = slug] :
               slug \in ReportSlugs }
    \cup { [NoRequest EXCEPT !.op = "PrintComparisonReport",
                             !.location1 = slug1, !.location2 = slug2] :
               slug1 \in ReportSlugs, slug2 \in ReportSlugs }

\* Time texts as secondsToTime writes them, 9:59 and 1:02:05 among them.
MedianTimeInputs == { secondsToTime(s) : s \in {599, 600, 1200, 1260, 3725} }

\* The calls of the two functions that read no store.
PureRequests ==
    { [NoRequest EXCEPT !.op = "secondsToTime", !.seconds = s] :
          s \in (0..MaxSeconds) \cup {36000, 86399, 360000} }
    \cup { [NoRequest EXCEPT !.op = "calculateMedianTime", !.times = times] :
               times \in UNION { [1..n -> MedianTimeInputs] : n \in 0..MaxTimes } }

\* A store and a request that reads it, or a call that reads no store.
InitReport ==
    /\ InitRun
    /\ input = NoInput
    /\ parsed = NoParsed
    /\ reply = NoReply
    /\ db \in ReportStores
    /\ request \in IF db = EmptyDB THEN StoreRequests \cup PureRequests ELSE StoreRequests

CallGetTopParticipants ==
    /\ request.op = "GetTopParticipants" /\ reply.op = "none"
    /\ \E runners \in GetTopParticipants(db, request.locationID, request.limit) :
          reply' = [NoReply EXCEPT !.op = request.op, !.outcome = "ok", !.runners = runners]
    /\ UNCHANGED <<db, runVars, callVars, textVars, request>>

CallGetMedianTimesByAgeCategory ==
    /\ request.op = "GetMedianTimesByAgeCategory" /\ reply.op = "none"
    /\ reply' = [NoReply EXCEPT !.op = request.op, !.outcome = "ok",
                                !.times = GetMedianTimesByAgeCategory(db, request.locationID)]
    /\ UNCHANGED <<db, runVars, callVars, textVars, request>>

CallGetLocationStats ==
    /\ request.op = "GetLocationStats" /\ reply.op = "none"
    /\ LET stats == GetLocationStats(db, request.locationID)
       IN  reply' = [NoReply EXCEPT !.op = request.op, !.stats = stats,
                                    !.outcome = IF stats.err THEN "error" ELSE "ok"]
    /\ UNCHANGED <<db, runVars, callVars, textVars, request>>

\* main.go `report <slug>`
CallPrintReports ==
    /\ request.op = "PrintReports" /\ reply.op = "none"
    /\ reply' = [PrintReports(db, request.location1) EXCEPT !.op = request.op]
    /\ UNCHANGED <<db, runVars, callVars, textVars, request>>

\* main.go `compare <slug1> <slug2>`
CallPrintComparisonReport ==
    /\ request.op = "PrintComparisonReport" /\ reply.op = "none"
    /\ reply' = [PrintComparisonReport(db, request.location1, request.location2)
                     EXCEPT !.op = request.op]
    /\ UNCHANGED <<db, runVars, callVars, textVars, request>>

CallSecondsToTime ==
    /\ request.op = "secondsToTime" /\ reply.op = "none"
    /\ reply' = [NoReply EXCEPT !.op = request.op, !.outcome = "ok",
                                !.text = secondsToTime(request.seconds)]
    /\ UNCHANGED <<db, runVars, callVars, textVars, request>>

CallCalculateMedianTime ==
    /\ request.op = "calculateMedianTime" /\ reply.op = "none"
    /\ reply' = [NoReply EXCEPT !.op = request.op, !.outcome = "ok",
                                !.text = calculateMedianTime(request.times)]
    /\ UNCHANGED <<db, runVars, callVars, textVars, request>>

NextReport ==
    \/ CallGetTopParticipants
    \/ CallGetMedianTimesByAgeCategory
    \/ CallGetLocationStats
    \/ CallPrintReports
    \/ CallPrintComparisonReport
    \/ CallSecondsToTime
    \/ CallCalculateMedianTime

SpecReport == InitReport /\ [][NextReport]_vars

\* ----------------------------------------------------------------- claims
\* The response is a failure that is neither rate-limited nor exhausted.
OtherFailure(r) ==
    \/ r.kind \in {"network", "html"}
    \/ r.kind = "http" /\ r.code >= 400 /\ r.code \notin {405, 425}

\* C1: after a 405 the loop goes back to fetching with the event number and
\* the consecutive-error counter unchanged, and the request that follows a 405
\* is for the same event number with the counter as it was at the 405 request.
C1_RateLimitedRetriesSameEvent ==
    [][ /\ (pc = "handle" /\ resp.kind = "http" /\ resp.code = 405)
            => (pc' = "fetch" /\ eventID' = eventID
                /\ consecutiveErrors' = consecutiveErrors /\ db' = db)
        /\ (pc = "fetch" /\ pc' = "handle" /\ resp.kind = "http" /\ resp.code = 405)
            => (fetched' = fetched /\ errsAtFetch' = errsAtFetch) ]_vars

\* Two 405 responses in a row, with the counter not at zero.
C1_Witness ==
    /\ pc = "handle" /\ resp.kind = "http" /\ resp.code = 405
    /\ streak405 = 2 /\ consecutiveErrors = 2

\* C2: a 425 ends the loop with the end-of-events notice; the store and the
\* event number are left as they are, and once the loop has ended the process
\* sends no request and writes nothing.
C2_ExhaustedEndsLoop ==
    [][ /\ (pc = "handle" /\ resp.kind = "http" /\ resp.code = 425)
            => (pc' = "done" /\ notice' = "exhausted" /\ db' = db /\ eventID' = eventID)
        /\ (pc = "done" /\ runs' = runs)
            => (pc' = "done" /\ fetched' = fetched /\ db' = db /\ eventID' = eventID) ]_vars

\* The loop has ended on a 425 that came after two counted failures.
C2_Witness == pc = "done" /\ notice = "exhausted" /\ consecutiveErrors = 2

\* C3: a failure other than 405 and 425 adds one to the counter and leaves the
\* event number and the store alone; below 3 the loop fetches again, at 3 it
\* ends with the consecutive-errors notice and the process sends no request
\* after that.
C3_OtherFailureCounts ==
    [][ /\ (pc = "handle" /\ OtherFailure(resp))
            => /\ consecutiveErrors' = consecutiveErrors + 1
               /\ eventID' = eventID
               /\ db' = db
               /\ IF consecutiveErrors' >= 3
                     THEN pc' = "done" /\ notice' = "maxErrors"
                     ELSE pc' = "fetch" /\ notice' = "none"
        /\ (notice = "maxErrors" /\ runs' = runs)
            => (pc' = "done" /\ fetched' = fetched /\ resp' = resp) ]_vars

\* The loop has ended on the third failure in a row, an HTML parse failure.
C3_Witness ==
    pc = "done" /\ notice = "maxErrors" /\ resp.kind = "html" /\ consecutiveErrors = 3

\* C4: a successful fetch sets the counter to zero, and the loop has ended
\* with the consecutive-errors notice only if the last 3 failures had no
\* successful fetch between them.
C4_SuccessResetsCounter ==
    /\ [][ (pc = "handle" /\ resp.kind = "ok") => consecutiveErrors' = 0 ]_vars
    /\ [](notice = "maxErrors" => errsSinceSuccess >= 3)

\* The loop stored an event in this run and later ended on 3 failures.
C4_Witness ==
    /\ notice = "maxErrors" /\ dbEventID # 0 /\ errsSinceSuccess = 3
    /\ \E e \in db.events : e.id = dbEventID

\* 1 + the highest event number stored for the location, 1 if there is none.
StoredNumbers(d, locID) == { e.event_number : e \in { x \in d.events : x.location_id = locID } }
OneAfterHighest(d, locID) ==
    IF StoredNumbers(d, locID) = {} THEN 1 ELSE 1 + Max(StoredNumbers(d, locID))

\* C5 as stated: the first request of a run is for 1 + the highest event
\* number stored for the location, or 1 if it has none.
C5_FirstFetchIsNextNumber ==
    [][ (pc = "fetch" /\ fetched = 0 /\ pc' = "handle")
            => fetched' = OneAfterHighest(db, locationID) ]_vars

\* C5 amended: that holds when the MAX(event_number) query succeeds; when the
\* query fails the first request is for event 1.
C5_FirstFetchIsNextNumberUnlessQueryFails ==
    [][ (pc = "fetch" /\ fetched = 0 /\ pc' = "handle")
            => fetched' = IF queryFailed THEN 1 ELSE OneAfterHighest(db, locationID) ]_vars

\* A second run sends its first request for event 3, events 1 and 2 being stored.
C5_Witness ==
    /\ pc = "handle" /\ fetched = 3 /\ ~queryFailed /\ runs = 2
    /\ StoredNumbers(db, locationID) = {1, 2}

\* C6: result rows are written only after StoreEvent returned an id, every new
\* result row carries that id, the event row of that id is in the store with
\* the fetched number and location, and a failed StoreEvent writes nothing and
\* goes back to fetching.
C6_EventBeforeResults ==
    [][ /\ (db'.results \ db.results # {})
            => /\ pc = "storeResults"
               /\ \A r \in db'.results \ db.results : r.event_id = dbEventID
               /\ \E e \in db.events : /\ e.id = dbEventID
                                        /\ e.event_number = fetched
                                        /\ e.location_id = locationID
        /\ (pc = "storeEvent" /\ ~(\E e \in db'.events : e.id = dbEventID' /\ e \notin db.events))
            => (db' = db /\ pc' = "fetch") ]_vars

\* Both results of an event have just been stored under the event's id.
C6_Witness ==
    /\ pc = "fetch" /\ dbEventID # 0
    /\ Cardinality({ r \in db.results : r.event_id = dbEventID }) = 2

\* C7 as stated: every request after the first of a run comes at least 5
\* seconds of sleep after the request before it.
C7_PoliteInterval ==
    [][ (pc = "fetch" /\ pc' = "handle" /\ fetched # 0)
            => sleptSince >= WaitBetweenRequests ]_vars

\* The slug is stored and its stored events are exactly 1..K, K >= 1 being
\* all the events the source has.
FullyStored(d, slug) ==
    \E l \in d.locations :
        /\ l.slug = slug
        /\ StoredNumbers(d, l.id) = 1..SrcEventCount(slug)

\* The rows without their ids; a result row names its event by number and
\* location, or "orphan" when no event row has its event_id.
EventKeyOf(d, id) ==
    IF \E e \in d.events : e.id = id
        THEN LET e == CHOOSE x \in d.events : x.id = id
             IN  [orphan |-> FALSE, number |-> e.event_number, location |-> e.location_id]
        ELSE [orphan |-> TRUE, number |-> 0, location |-> 0]
StoreContent(d) ==
    [events |-> { [event_number |-> e.event_number, location_id |-> e.location_id,
                   date |-> e.date, url |-> e.url] : e \in d.events },
     results |-> { [position |-> r.position, name |-> r.name,
                    time_seconds |-> r.time_seconds, age_category |-> r.age_category,
                    event |-> EventKeyOf(d, r.event_id)] : r \in d.results },
     eventCount |-> Cardinality(d.events),
     resultCount |-> Cardinality(d.results)]

\* C8 as stated: a run without --clear for a fully stored location leaves the
\* locations, events and results tables with the row counts and the content
\* they had when it started.
C8_RerunChangesNothing ==
    (pc # "idle" /\ ~clearData /\ FullyStored(dbAtStart, urlSlug))
        => /\ db.locations = dbAtStart.locations
           /\ StoreContent(db) = StoreContent(dbAtStart)

\* C9 as stated: StoreEvent and StoreResults of the same event and results a
\* second time leave the event and result rows, in count and content, as they
\* were after the first time.
C9_StoreTwiceSameAsOnce ==
    (lastCall.op = "StoreEventAndResults" /\ lastCall.repeat)
        => StoreContent(db) = StoreContent(lastCall.before)

\* C10: no two event rows share (event_number, location_id) and no two result
\* rows share (position, event_id).
C10_UniqueKeys ==
    /\ \A e1 \in db.events, e2 \in db.events :
          (e1.event_number = e2.event_number /\ e1.location_id = e2.location_id) => e1 = e2
    /\ \A r1 \in db.results, r2 \in db.results :
          (r1.position = r2.position /\ r1.event_id = r2.event_id) => r1 = r2

\* An event has just been stored over a stored event of the same key while
\* result rows are in the store.
C10_Witness ==
    lastCall.op \in {"StoreEvent", "StoreEventAndResults"} /\ lastCall.conflict /\ db.results # {}

\* The rows of the slug's location: its row, its events, their results.
LocationOf(d, slug) == { l \in d.locations : l.slug = slug }
EventsOf(d, slug) == { e \in d.events : \E l \in LocationOf(d, slug) : e.location_id = l.id }
ResultsOf(d, slug) == { r \in d.results : \E e \in EventsOf(d, slug) : r.event_id = e.id }

\* C11: a ClearLocationData call in which no statement fails returns no error;
\* it removes the slug's location row, its events and their results and
\* leaves every other row as it was, and for a slug that is not stored it
\* changes nothing.
C11_ClearRemovesOnlyTheLocation ==
    [][ (lastCall'.op = "ClearLocationData" /\ calls' = calls + 1 /\ lastCall'.failAt = "none")
            => /\ ~lastCall'.err
               /\ db'.locations = db.locations \ LocationOf(db, lastCall'.slug)
               /\ db'.events = db.events \ EventsOf(db, lastCall'.slug)
               /\ db'.results = db.results \ ResultsOf(db, lastCall'.slug)
               /\ (LocationOf(db, lastCall'.slug) = {} => db' = db) ]_vars

\* A clear has just emptied a store that held a location, an event and results.
C11_Witness ==
    /\ lastCall.op = "ClearLocationData" /\ lastCall.failAt = "none" /\ ~lastCall.err
    /\ db.seqLoc > 0 /\ db.seqEvt > 0 /\ db.seqRes > 0
    /\ db.locations = {} /\ db.events = {} /\ db.results = {}

\* C12: a ClearLocationData call on a stored slug in which a DELETE or the
\* commit fails returns an error and leaves the store as it was; and whatever
\* fails, the store after the call is either as it was or fully cleared.
C12_ClearAllOrNothing ==
    [][ (lastCall'.op = "ClearLocationData" /\ calls' = calls + 1)
            => /\ (/\ lastCall'.failAt \in {"results", "events", "location", "commit"}
                   /\ LocationOf(db, lastCall'.slug) # {})
                      => (lastCall'.err /\ db' = db)
               /\ lastCall'.err => db' = db
               /\ \/ db' = db
                  \/ /\ db'.locations = db.locations \ LocationOf(db, lastCall'.slug)
                     /\ db'.events = db.events \ EventsOf(db, lastCall'.slug)
                     /\ db'.results = db.results \ ResultsOf(db, lastCall'.slug) ]_vars

\* The DELETE of the location row has just failed after the results and the
\* events were deleted in the transaction; the rows are all in the store.
C12_Witness ==
    /\ lastCall.op = "ClearLocationData" /\ lastCall.failAt = "location" /\ lastCall.err
    /\ ResultsOf(db, lastCall.slug) # {}

\* The column a stored row must have for a result's TimeSeconds of 0 or more.
ExpectedTimeColumn(secs) == IF secs = 0 THEN << >> ELSE <<secs>>

\* The index of the last row of the batch, among those whose Exec succeeded,
\* that has the position of row i.
LastSameKey(rs, failed, i) ==
    Max({ j \in (1..Len(rs)) \ failed : rs[j].Position = rs[i].Position })

\* C13: no stored result has time_seconds 0, and every row a StoreResults call
\* writes has time_seconds NULL when the result's TimeSeconds is 0 and the
\* result's TimeSeconds when that is greater than 0.
C13_ZeroTimeStoredAsNull ==
    /\ [](\A r \in db.results : r.time_seconds # <<0>>)
    /\ [][ (lastCall'.op = "StoreResults" /\ calls' = calls + 1)
              => \A r \in db'.results \ db.results :
                    \E i \in (1..Len(lastCall'.results)) \ lastCall'.failed :
                        /\ lastCall'.results[i].Position = r.position
                        /\ lastCall'.results[i].Name = r.name
                        /\ lastCall'.results[i].TimeSeconds >= 0
                        /\ r.time_seconds = ExpectedTimeColumn(lastCall'.results[i].TimeSeconds) ]_vars

\* A StoreResults call has just stored a timed result and an "Unknown" one
\* whose time is the sentinel 0.
C13_Witness ==
    /\ lastCall.op = "StoreResults"
    /\ \E r \in db.results : r.name = "Unknown" /\ r.time_seconds = << >>
    /\ \E r \in db.results : r.name = "Runner B" /\ r.time_seconds = <<1500>>

\* C14: in a StoreResults call every row whose insert did not fail is in the
\* store afterwards under (position, event id), with the fields of the last
\* such row of the batch for that key; rows of other keys are untouched; and
\* the two counts add up to the size of the batch.
C14_FailedRowDoesNotStopBatch ==
    [][ (lastCall'.op = "StoreResults" /\ calls' = calls + 1)
          => LET rs == lastCall'.results
                 failed == lastCall'.failed
                 id == lastCall'.id
             IN  /\ lastCall'.successCount + lastCall'.errorCount = Len(rs)
                 /\ lastCall'.errorCount = Cardinality(failed)
                 /\ \A i \in (1..Len(rs)) \ failed :
                       \E r \in db'.results :
                           /\ r.position = rs[i].Position /\ r.event_id = id
                           /\ r.name = rs[LastSameKey(rs, failed, i)].Name
                           /\ r.age_category = rs[LastSameKey(rs, failed, i)].AgeCategory
                 /\ \A r \in db.results :
                       (~\E i \in (1..Len(rs)) \ failed :
                            r.position = rs[i].Position /\ r.event_id = id)
                           => r \in db'.results ]_vars

\* The insert of the first of two rows failed and the second row is stored.
C14_Witness ==
    /\ lastCall.op = "StoreResults" /\ lastCall.failed = {1} /\ Len(lastCall.results) = 2
    /\ lastCall.successCount = 1 /\ lastCall.errorCount = 1
    /\ \E r \in db.results : /\ r.position = lastCall.results[2].Position
                              /\ r.event_id = lastCall.id
                              /\ r.name = lastCall.results[2].Name

\* C15: when the location step of a run goes on (no log.Fatal) and the slug
\* was not stored, the store gains exactly one location row, with the slug,
\* the default country and the id the step resolved; when the slug was stored
\* the store is unchanged and the id is the existing row's; and no state has
\* two location rows with one slug.
C15_UpsertLocation ==
    /\ [](\A l1, l2 \in db.locations : l1.slug = l2.slug => l1 = l2)
    /\ [][ (pc = "location" /\ pc' = "next")
              => IF LocationOf(db, urlSlug) = {}
                    THEN /\ \E l \in db'.locations \ db.locations :
                              /\ db'.locations = db.locations \cup {l}
                              /\ l.slug = urlSlug /\ l.country = DefaultCountry
                              /\ l.id = locationID'
                         /\ db'.events = db.events /\ db'.results = db.results
                    ELSE /\ db' = db
                         /\ \E l \in db.locations : l.slug = urlSlug /\ l.id = locationID' ]_vars

\* A second run has resolved the id of a location row that was stored before
\* it started, and the location rows are the ones it started with.
C15_Witness ==
    /\ pc = "next" /\ runs = 2 /\ ~clearData
    /\ \E l \in dbAtStart.locations : l.slug = urlSlug /\ l.id = locationID
    /\ db.locations = dbAtStart.locations

\* The rows of the page whose data-position is not a positive integer.
InvalidPositionRows(rows) ==
    { i \in 1..Len(rows) : ~PositionOf(rows[i].dataPosition).valid }

\* C16: every Result scrapeEvent returns has a positive position, and the rows
\* whose data-position is missing, not a number, zero or negative are left
\* out of the returned list and counted as skipped.
C16_PositivePositions ==
    parsed.op = "scrapeEvent" =>
        /\ \A k \in 1..Len(parsed.results) : parsed.results[k].Position > 0
        /\ Len(parsed.results) <= Len(input.doc.rows)
                                     - Cardinality(InvalidPositionRows(input.doc.rows))
        /\ parsed.skippedRows >= Cardinality(InvalidPositionRows(input.doc.rows))

\* The row is one the rule keeps: its name is "Unknown", or the text of its
\* time cell parses.
KeptRow(s) == s.dataName = "Unknown" \/ ~timeToSeconds(TrimSpace(s.timeCell)).err

\* C17: of the rows of a page scrapeEvent returns, in document order, exactly
\* those whose name is "Unknown" (with TimeSeconds 0 whatever the time text)
\* or whose time text parses (with the parsed time); each other row is left
\* out and counted as skipped.
C17_UnknownKeptBadTimeDropped ==
    parsed.op = "scrapeEvent" =>
        LET rows == input.doc.rows
            kept == { i \in 1..Len(rows) : KeptRow(rows[i]) }
            Rank(i) == Cardinality({ j \in kept : j <= i })
        IN  /\ Len(parsed.results) = Cardinality(kept)
            /\ parsed.processedRows = Cardinality(kept)
            /\ parsed.skippedRows = Len(rows) - Cardinality(kept)
            /\ \A i \in kept :
                  LET r == parsed.results[Rank(i)] IN
                  /\ r.Name = rows[i].dataName
                  /\ r.Time = TrimSpace(rows[i].timeCell)
                  /\ r.TimeSeconds = IF rows[i].dataName = "Unknown" THEN 0
                                     ELSE timeToSeconds(TrimSpace(rows[i].timeCell)).value

\* A page of a named row whose time is "ab:cd" and then an "Unknown" row whose
\* time is "ab:cd" too: the first is skipped, the second returned with time 0.
C17_Witness ==
    /\ parsed.op = "scrapeEvent"
    /\ Len(input.doc.rows) = 2
    /\ input.doc.rows[1].dataName = "Runner C"
    /\ input.doc.rows[2].dataName = "Unknown" /\ input.doc.rows[2].timeCell # << >>
    /\ parsed.skippedRows = 1
    /\ Len(parsed.results) = 1
    /\ parsed.results[1].Name = "Unknown" /\ parsed.results[1].TimeSeconds = 0

\* A date text that parses.
ParseableDate == <<"5", "/", "6", "/", "2", "3">>

\* C18: on a page whose date text does not parse scrapeEvent returns no
\* error, an Event with the event number, the url and the zero date, and the
\* Results it returns for the same page with a date text that parses; and
\* parseEventDate returns the date a text denotes, or the zero date and an
\* error when it denotes none.
C18_DateFailureKeepsResults ==
    /\ (parsed.op = "scrapeEvent" /\ ~DateOf(input.doc.dateText).ok) =>
          /\ ~parsed.err
          /\ parsed.event.EventNumber = input.eventNumber
          /\ parsed.event.URL = [slug |-> input.slug, number |-> input.eventNumber]
          /\ parsed.event.Date = ZeroDate
          /\ parsed.results =
                scrapeEvent([input.doc EXCEPT !.dateText = ParseableDate],
                            [slug |-> input.slug, number |-> input.eventNumber],
                            input.eventNumber).results
    /\ (parsed.op = "scrapeEvent" /\ DateOf(input.doc.dateText).ok) =>
          parsed.event.Date = DateOf(input.doc.dateText).date
    /\ parsed.op = "parseEventDate" =>
          /\ parsed.err = ~DateOf(input.text).ok
          /\ parsed.date = DateOf(input.text).date

\* A page dated "2023-12-25" was scraped: the date is the zero date and a
\* Result is returned.
C18_Witness ==
    /\ parsed.op = "scrapeEvent"
    /\ input.doc.dateText = <<"2", "0", "2", "3", "-", "1", "2", "-", "2", "5">>
    /\ parsed.event.Date = ZeroDate
    /\ parsed.event.EventNumber = 2
    /\ Len(parsed.results) >= 1

\* C19: timeToSeconds of "M:S" with integer M and S is M*60+S, of "H:M:S" is
\* H*3600+M*60+S, and of "" and of "Unknown" is 0, each without an error.
C19_TimeToSecondsValue ==
    parsed.op = "timeToSeconds" =>
        LET p == input.parts
            ints == \A i \in 1..Len(p) : p[i].isInt
        IN  /\ (Len(p) = 2 /\ ints) =>
                  ~parsed.err /\ parsed.seconds = p[1].value * 60 + p[2].value
            /\ (Len(p) = 3 /\ ints) =>
                  /\ ~parsed.err
                  /\ parsed.seconds = p[1].value * 3600 + p[2].value * 60 + p[3].value
            /\ (input.text = << >> \/ input.text = Unknown) =>
                  ~parsed.err /\ parsed.seconds = 0

\* timeToSeconds("1:23:45") has returned 5025.
C19_Witness ==
    /\ parsed.op = "timeToSeconds"
    /\ input.text = <<"1", ":", "2", "3", ":", "4", "5">>
    /\ parsed.seconds = 5025 /\ ~parsed.err

\* C20: timeToSeconds returns an error for every text other than "" and
\* "Unknown" that has not 2 or 3 components or has a component that is not a
\* non-negative integer.
C20_MalformedTimeFails ==
    (/\ parsed.op = "timeToSeconds"
     /\ input.text # << >> /\ input.text # Unknown
     /\ \/ Len(input.parts) \notin {2, 3}
        \/ \E i \in 1..Len(input.parts) :
               ~(input.parts[i].isInt /\ input.parts[i].value >= 0))
        => parsed.err

\* The text is the decimal numeral of n, without padding.
IsNumeral(text, n) ==
    /\ text # << >>
    /\ \A i \in 1..Len(text) : IsDigit(text[i])
    /\ DecimalValue(text) = n
    /\ (Len(text) > 1 => text[1] # "0")

\* The text is n written with two digits.
IsTwoDigits(text, n) ==
    /\ Len(text) = 2
    /\ IsDigit(text[1]) /\ IsDigit(text[2])
    /\ DecimalValue(text) = n

\* C21: secondsToTime of 0 is "Unknown"; of 3600 or more it is H:MM:SS with
\* H the hours unpadded and the minutes and seconds in two digits; of a value
\* between them it is M:SS with M unpadded and the seconds in two digits.
C21_FormatDuration ==
    (reply.op = "secondsToTime" /\ request.seconds >= 0) =>
        LET seconds == request.seconds
            fields == Split(reply.text, ":")
        IN  /\ seconds = 0 => reply.text = Unknown
            /\ seconds >= 3600 =>
                  /\ Len(fields) = 3
                  /\ IsNumeral(fields[1], seconds \div 3600)
                  /\ IsTwoDigits(fields[2], (seconds % 3600) \div 60)
                  /\ IsTwoDigits(fields[3], seconds % 60)
            /\ (0 < seconds /\ seconds < 3600) =>
                  /\ Len(fields) = 2
                  /\ IsNumeral(fields[1], seconds \div 60)
                  /\ IsTwoDigits(fields[2], seconds % 60)

\* secondsToTime(3725) has returned "1:02:05".
C21_Witness ==
    /\ reply.op = "secondsToTime"
    /\ request.seconds = 3725
    /\ reply.text = <<"1", ":", "0", "2", ":", "0", "5">>

\* The results of the location with a time above 0, in category c.
TimedRows(d, loc, c) ==
    { r \in d.results :
          /\ \E e \in d.events : e.id = r.event_id /\ e.location_id = loc
          /\ r.time_seconds # << >> /\ r.time_seconds[1] > 0
          /\ r.age_category = c }

\* The k-th smallest time of the rows.
KthTime(rows, k) ==
    CHOOSE v \in { r.time_seconds[1] : r \in rows } :
        /\ Cardinality({ r \in rows : r.time_seconds[1] < v }) < k
        /\ Cardinality({ r \in rows : r.time_seconds[1] <= v }) >= k

\* The non-empty categories of the location that have a timed result.
TimedCategories(d, loc) ==
    { c \in { r.age_category : r \in d.results } :
          c # << >> /\ TimedRows(d, loc, c) # {} }

\* The reply has exactly one TimeStats for each timed category, with Count
\* the number of its timed results and Median the text of MedianSeconds.
MedianReplyIs(MedianSeconds(_)) ==
    /\ { reply.times[i].Category : i \in 1..Len(reply.times) }
            = TimedCategories(db, request.locationID)
    /\ Len(reply.times) = Cardinality(TimedCategories(db, request.locationID))
    /\ \A i \in 1..Len(reply.times) :
          LET rows == TimedRows(db, request.locationID, reply.times[i].Category)
          IN  /\ reply.times[i].Count = Cardinality(rows)
              /\ reply.times[i].Median = secondsToTime(MedianSeconds(rows))

\* The median in whole seconds when it is one: the middle time of an odd
\* count, the mean of the two central times when that is whole, else -1.
ExactMedian(rows) ==
    LET n == Cardinality(rows) IN
    IF n % 2 = 1 THEN KthTime(rows, (n \div 2) + 1)
    ELSE IF (KthTime(rows, n \div 2) + KthTime(rows, (n \div 2) + 1)) % 2 = 0
        THEN (KthTime(rows, n \div 2) + KthTime(rows, (n \div 2) + 1)) \div 2
    ELSE 0 - 1

\* The middle time of an odd count, the mean of the two central times of an
\* even count rounded down to a whole second.
RoundedDownMedian(rows) ==
    LET n == Cardinality(rows) IN
    IF n % 2 = 1 THEN KthTime(rows, (n \div 2) + 1)
    ELSE (KthTime(rows, n \div 2) + KthTime(rows, (n \div 2) + 1)) \div 2

\* C22 as stated: for every non-empty category of the location, over its
\* results with a time above 0, the reported median is the middle time of an
\* odd count and the arithmetic mean of the two central times of an even
\* count, and Count is the number of those results.
C22_MedianIsMean ==
    reply.op = "GetMedianTimesByAgeCategory" => MedianReplyIs(ExactMedian)

\* C22 amended: as above, the mean of the two central times of an even count
\* being rounded down to a whole second.
C22_MedianIsMeanRoundedDown ==
    reply.op = "GetMedianTimesByAgeCategory" => MedianReplyIs(RoundedDownMedian)

\* The location has the times 1180 and 1191 in VM35-39 and no other: the
\* median reported is 19:45.
C22_Witness ==
    /\ reply.op = "GetMedianTimesByAgeCategory"
    /\ Len(reply.times) = 1
    /\ reply.times[1].Count = 2
    /\ { r.time_seconds : r \in TimedRows(db, request.locationID, reply.times[1].Category) }
           = { <<1180>>, <<1191>> }
    /\ reply.times[1].Median = <<"1", "9", ":", "4", "5">>

\* The results of the location with a time above 0 whose category is in
\* group g.
GroupRows(d, loc, g) ==
    { r \in d.results :
          /\ \E e \in d.events : e.id = r.event_id /\ e.location_id = loc
          /\ r.time_seconds # << >> /\ r.time_seconds[1] > 0
          /\ Len(r.age_category) >= 2 /\ GroupOf(r.age_category) = g }

\* The texts a median of the rows by duration can be reported as: the middle
\* time of an odd count; for an even count either central time or their mean.
MedianTexts(rows) ==
    LET n == Cardinality(rows) IN
    IF n % 2 = 1 THEN { secondsToTime(KthTime(rows, (n \div 2) + 1)) }
    ELSE { secondsToTime(KthTime(rows, n \div 2)),
           secondsToTime(KthTime(rows, (n \div 2) + 1)),
           secondsToTime((KthTime(rows, n \div 2) + KthTime(rows, (n \div 2) + 1)) \div 2) }

\* The id of the location the report is about.
ReportLocationID == (CHOOSE l \in db.locations : l.slug = request.location1).id

\* C23: in a report the overall median of each group is the median, by
\* duration, of the individual times of the results in the group's
\* categories; calculateMedianTime of no time is "N/A" and of an odd number
\* of times it is the middle one in ascending order of time.
C23_OverallMedianOfPooledTimes ==
    /\ (reply.op = "PrintReports" /\ reply.outcome = "ok") =>
          \A g \in GroupNames :
              GroupRows(db, ReportLocationID, g) # {}
                  => reply.overall[g] \in MedianTexts(GroupRows(db, ReportLocationID, g))
    /\ reply.op = "calculateMedianTime" =>
          LET times == request.times
              n == Len(times)
              Secs(i) == timeToSeconds(times[i]).value
          IN  /\ n = 0 => reply.text = NotAvailable
              /\ n % 2 = 1 =>
                    \E i \in 1..n :
                        /\ reply.text = times[i]
                        /\ Cardinality({ j \in 1..n : Secs(j) < Secs(i) }) <= n \div 2
                        /\ Cardinality({ j \in 1..n : Secs(j) > Secs(i) }) <= n \div 2

\* The results of the events of the location.
LocationResults(d, loc) ==
    { r \in d.results : \E e \in d.events : e.id = r.event_id /\ e.location_id = loc }

\* C24: GetTopParticipants returns at most limit entries, one for each of
\* the runner names it lists, none of them "Unknown", each with the number of
\* results of that name in the events of the location, in non-increasing
\* order of that number, and no name left out has more results than a name
\* listed.
C24_TopParticipants ==
    reply.op = "GetTopParticipants" =>
        LET runners == reply.runners
            named == { r \in LocationResults(db, request.locationID) : r.name # "Unknown" }
            Runs(n) == Cardinality({ r \in named : r.name = n })
        IN  /\ Len(runners) <= request.limit
            /\ Len(runners) < request.limit
                  => { runners[i].Name : i \in 1..Len(runners) } = { r.name : r \in named }
            /\ \A i, j \in 1..Len(runners) : i # j => runners[i].Name # runners[j].Name
            /\ \A i \in 1..Len(runners) :
                  /\ runners[i].Name # "Unknown"
                  /\ runners[i].TotalRuns = Runs(runners[i].Name)
                  /\ runners[i].TotalRuns > 0
                  /\ i < Len(runners) => runners[i].TotalRuns >= runners[i + 1].TotalRuns
                  /\ \A r \in named :
                        (\A k \in 1..Len(runners) : runners[k].Name # r.name)
                            => Runs(r.name) <= runners[i].TotalRuns

\* "Unknown" is in an event of the location, one runner is in another event
\* of it and in an event of the other location, and the answer is that
\* runner with 1 run.
C24_Witness ==
    /\ reply.op = "GetTopParticipants"
    /\ request.locationID = 1
    /\ \E r \in LocationResults(db, 1) : r.name = "Unknown"
    /\ Len(reply.runners) = 1
    /\ reply.runners[1].TotalRuns = 1
    /\ \E r \in LocationResults(db, 2) : r.name = reply.runners[1].Name

\* C25: total_runners of the location summary is the number of distinct
\* names among the results of the location's events, "Unknown" not counted.
C25_DistinctRunnersWithoutUnknown ==
    (reply.op = "GetLocationStats" /\ reply.outcome = "ok") =>
        reply.stats.total_runners =
            Cardinality({ r.name : r \in LocationResults(db, request.locationID) }
                            \ {"Unknown"})

\* The slug the request names that the location lookup misses first: the
\* slug of report, the first slug of compare, or its second slug once the
\* first has its summary.
MissedSlug(d, req) ==
    LET Stored(slug) == \E l \in d.locations : l.slug = slug IN
    IF req.op = "PrintReports" THEN ~Stored(req.location1)
    ELSE IF req.op = "PrintComparisonReport"
        THEN \/ ~Stored(req.location1)
             \/ /\ ~getLocationStats(d, req.location1).err
                /\ ~Stored(req.location2)
    ELSE FALSE

\* C26: a report or compare request that names a slug that is not stored
\* ends with an error, not a crash, and the error lists the stored slugs.
C26_NotFoundListsSlugs ==
    (reply.op \in {"PrintReports", "PrintComparisonReport"} /\ MissedSlug(db, request)) =>
        /\ reply.outcome = "error"
        /\ reply.listed
        /\ reply.locations = { l.slug : l \in db.locations }

\* The bucket of a category code: by its first two characters, Other for
\* every other code, a code of fewer than two characters included.
BucketOf(category) ==
    IF Len(category) < 2 THEN "Other"
    ELSE IF <<category[1], category[2]>> \in {<<"J", "M">>, <<"J", "W">>} THEN "Juniors"
    ELSE IF <<category[1], category[2]>> \in {<<"S", "M">>, <<"V", "M">>} THEN "Men"
    ELSE IF <<category[1], category[2]>> \in {<<"S", "W">>, <<"V", "W">>} THEN "Women"
    ELSE "Other"

\* The category codes a report or compare request classifies: those of the
\* timed results of the locations it names.
ClassifiedCategories(d, req) ==
    LET IdOf(slug) == (CHOOSE l \in d.locations : l.slug = slug).id IN
    IF req.op = "PrintReports" THEN TimedCategories(d, IdOf(req.location1))
    ELSE TimedCategories(d, IdOf(req.location1)) \cup TimedCategories(d, IdOf(req.location2))

\* C27: a report or compare that has the summaries of its locations
\* classifies every category code it reads, and puts each into the bucket of
\* its first two characters, a code of one character into Other.
C27_ClassificationIsTotal ==
    (reply.op \in {"PrintReports", "PrintComparisonReport"} /\ reply.outcome # "error") =>
        /\ reply.outcome = "ok"
        /\ \A g \in GroupNames :
              { reply.groups[g][i] : i \in 1..Len(reply.groups[g]) }
                  = { c \in ClassifiedCategories(db, request) : BucketOf(c) = g }

\* C28: if rate-limited responses occur only finitely often (the source has
\* SrcEventCount events, so every higher number is answered exhausted), then
\* every run that is started ends, whatever fetch and store errors occur.
C28_RunsTerminate ==
    (<>[](~IsHTTPError(resp, 405))) => <>[](pc \in {"idle", "done", "fatal"})

\* C29: whatever programs have run, every result row belongs to an event
\* row that exists and every event row to a location row that exists.
C29_NoOrphans ==
    /\ \A r \in db.results : \E e \in db.events : e.id = r.event_id
    /\ \A e \in db.events : \E l \in db.locations : l.id = e.location_id

\* The event rows the running process has stored: their ids are above the
\* AUTOINCREMENT counter the run started with.
StoredByRun == { e \in db.events : e.id > dbAtStart.seqEvt }

\* The numbers of StoredByRun are first..last for some first, one row each.
ConsecutiveUpTo(last) ==
    /\ \E first \in 1..(last + 1) :
          { e.event_number : e \in StoredByRun } = first..last
    /\ \A e1, e2 \in StoredByRun : e1.event_number = e2.event_number => e1 = e2
    /\ \A e \in StoredByRun : e.location_id = locationID

\* C30: inside the loop of a run the event number never decreases; a step
\* that changes it adds exactly one, and is taken after the event of that
\* number was fetched successfully and its Event row stored.  So the events
\* the run has stored are the consecutive numbers up to the last one stored,
\* one row each.
C30_NumberAdvancesAfterStore ==
    [][ /\ pc \in {"fetch", "handle", "storeEvent", "storeResults"} =>
              /\ eventID' >= eventID
              /\ eventID' # eventID =>
                    /\ eventID' = eventID + 1
                    /\ resp.kind = "ok"
                    /\ fetched = eventID
                    /\ \E e \in StoredByRun :
                          /\ e.id = dbEventID
                          /\ e.event_number = eventID
                          /\ e.location_id = locationID
        /\ pc' \in {"fetch", "handle", "storeEvent", "done"} =>
              (ConsecutiveUpTo(eventID - 1))'
        /\ pc' = "storeResults" => (ConsecutiveUpTo(eventID))'
      ]_vars

\* A run that resumed at event 2 after an earlier run stored event 1, stored
\* event 2 and went on to 3, which the source does not have.
C30_Witness ==
    /\ runs = 2
    /\ pc = "done"
    /\ notice = "exhausted"
    /\ eventID = 3
    /\ { e.event_number : e \in StoredByRun } = {2}
    /\ \E e \in db.events : e.event_number = 1 /\ e.id <= dbAtStart.seqEvt

====
